---- MODULE Spec2Model ----
(***************************************************************************)
(* A model of the local Graffiti object store: the PouchDB-backed object   *)
(* database (post, get, delete, discover, continue), the url codec, and    *)
(* the access-control and masking helpers.                                 *)
(*                                                                         *)
(* Strings that the code takes apart (actors, ids, urls) are sequences of  *)
(* one-character strings; the url scheme prefix is one token.              *)
(***************************************************************************)
EXTENDS Integers, Sequences, FiniteSets, TLC

(***************************************************************************)
(* Bounds of the model.                                                    *)
(***************************************************************************)
\* the backend's update sequence is not advanced beyond this value
MaxSeq == 3
\* the number of times the model lets time pass
MaxTicks == 5
\* the longest actor and id given to the url codec
CodecMaxLen == 2
\* the documents GraffitiLocalDatabase comes to hold
MaxDocs == 3
\* the largest bound of a schema on lastModified, counted in halves
MaxHalves == 5
\* the last millisecond of the clock of GraffitiLocalDatabase
MaxNow == 2

(***************************************************************************)
(* The url codec (utilities.ts).                                           *)
(***************************************************************************)
OBJECT_URL_PREFIX == "graffiti:"

\* String.prototype.replace(/from/g, to) on a sequence of characters
RECURSIVE replaceAll(_, _, _)
replaceAll(s, from, to) ==
  IF s = <<>> THEN <<>>
  ELSE <<IF Head(s) = from THEN to ELSE Head(s)>> \o replaceAll(Tail(s), from, to)

\* characters encodeURIComponent leaves as they are (the ones of the model's alphabet)
UriUnreserved ==
  {"a", "b", "c", "x", "y", "z", "w", "0", "1", "2", "3", "4", "5", "6", "7", "8", "9",
   "!", "~", "-", "_"}

\* the escape encodeURIComponent writes for a reserved character
PercentCode(c) ==
  CASE c = "%" -> <<"%", "2", "5">>
    [] c = ":" -> <<"%", "3", "A">>
    [] c = "/" -> <<"%", "2", "F">>
    [] c = "," -> <<"%", "2", "C">>
    [] OTHER -> <<"%", "3", "F">>

RECURSIVE encodeURIComponent(_)
encodeURIComponent(s) ==
  IF s = <<>> THEN <<>>
  ELSE (IF Head(s) \in UriUnreserved THEN <<Head(s)>> ELSE PercentCode(Head(s)))
       \o encodeURIComponent(Tail(s))

\* decodeURIComponent: [ok, value]; ok = FALSE stands for the URIError it throws
RECURSIVE decodeURIComponent(_)
decodeURIComponent(s) ==
  IF s = <<>> THEN [ok |-> TRUE, value |-> <<>>]
  ELSE IF Head(s) # "%"
    THEN LET rest == decodeURIComponent(Tail(s))
         IN  [ok |-> rest.ok, value |-> <<Head(s)>> \o rest.value]
  ELSE IF Len(s) < 3 THEN [ok |-> FALSE, value |-> <<>>]
  ELSE LET code == <<s[2], s[3]>>
           rest == decodeURIComponent(SubSeq(s, 4, Len(s)))
           char == CASE code = <<"2", "5">> -> "%"
                     [] code = <<"3", "A">> -> ":"
                     [] code = <<"2", "F">> -> "/"
                     [] code = <<"2", "C">> -> ","
                     [] code = <<"3", "F">> -> "?"
                     [] OTHER -> ""
       IN  IF char = "" THEN [ok |-> FALSE, value |-> <<>>]
           ELSE [ok |-> rest.ok, value |-> <<char>> \o rest.value]

encodeObjectUrlComponent(value) ==
  encodeURIComponent(replaceAll(replaceAll(value, ":", "!"), "/", "~"))

decodeObjectUrlComponent(value) ==
  LET decoded == decodeURIComponent(value)
  IN  [ok |-> decoded.ok,
       value |-> replaceAll(replaceAll(decoded.value, "!", ":"), "~", "/")]

encodeGraffitiUrl(actor, id, prefix) ==
  <<prefix>> \o encodeObjectUrlComponent(actor) \o <<":">> \o encodeObjectUrlComponent(id)

encodeObjectUrl(actor, id) == encodeGraffitiUrl(actor, id, OBJECT_URL_PREFIX)

\* String.prototype.split(":") on a sequence of characters
RECURSIVE split(_)
split(s) ==
  IF s = <<>> THEN << <<>> >>
  ELSE LET rest == split(Tail(s))
       IN  IF Head(s) = ":" THEN << <<>> >> \o rest
           ELSE << <<Head(s)>> \o rest[1] >> \o Tail(rest)

\* [ok, error, actor, id]; error names what is thrown when ok = FALSE
decodeGraffitiUrl(url, prefix) ==
  LET fail(e) == [ok |-> FALSE, error |-> e, actor |-> <<>>, id |-> <<>>]
  IN  IF url = <<>> \/ Head(url) # prefix THEN fail("NotFound")
      ELSE LET slices == split(Tail(url))
           IN  IF Len(slices) # 2 THEN fail("NotFound")
               ELSE LET a == decodeObjectUrlComponent(slices[1])
                        i == decodeObjectUrlComponent(slices[2])
                    IN  IF ~a.ok \/ ~i.ok THEN fail("URIError")
                        ELSE [ok |-> TRUE, error |-> "", actor |-> a.value, id |-> i.value]

decodeObjectUrl(url) == decodeGraffitiUrl(url, OBJECT_URL_PREFIX)


(***************************************************************************)
(* Inputs of the model.                                                    *)
(***************************************************************************)
\* what randomBase64 may return
Ids == {<<"x">>, <<"y">>}

Actors == {<<":">>, <<"!">>}

\* a session is {actor} or absent (null / undefined)
NoSession == [present |-> FALSE, actor |-> <<>>]
SessionOf(a) == [present |-> TRUE, actor |-> a]
Sessions == {SessionOf(a) : a \in Actors}
Viewers == Sessions \cup {NoSession}

\* an allowed list is absent (undefined / null) or an array of actors
NoAllowed == [present |-> FALSE, list |-> <<>>]
AllowedOf(l) == [present |-> TRUE, list |-> l]

c1 == <<"c", "1">>
c2 == <<"c", "2">>
c3 == <<"c", "3">>

\* the partial objects handed to post
PostPartials ==
  { [value |-> "v1", channels |-> <<c1, c2>>, allowed |-> NoAllowed],
    [value |-> "v2", channels |-> <<c1, c3>>, allowed |-> AllowedOf(<<<<"!">>, <<"b">>>>)],
    [value |-> "v2", channels |-> <<>>, allowed |-> AllowedOf(<<>>)] }

\* the urls post can mint
MintedUrls == {encodeObjectUrl(a, i) : a \in Actors, i \in Ids}
\* a url without the scheme prefix
BadUrl == <<"a", ":", "x">>

\* schemas: {} and {properties: {value: {const: "v1"}}}
Schemas == {"empty", "v1"}

\* the channel lists and schemas handed to discover
DiscoverChannels == {<<c2, c1>>}
DiscoverSchemas == {"empty"}

Range(s) == {s[i] : i \in DOMAIN s}

(***************************************************************************)
(* Access control and masking.                                             *)
(***************************************************************************)
\* a variant that admits every logged-in actor to a restricted object
isActorAllowedAnyActor(object, session) ==
  \/ ~object.allowed.present
  \/ session.present /\ session.actor # <<>>

isActorAllowedGraffitiObject(object, session) ==
  \/ ~object.allowed.present
  \/ /\ session.present
     /\ session.actor # <<>>
     /\ \/ object.actor = session.actor
        \/ session.actor \in Range(object.allowed.list)

\* Array.prototype.filter(channel => channels.includes(channel))
RECURSIVE filterIncluded(_, _)
filterIncluded(list, channels) ==
  IF list = <<>> THEN <<>>
  ELSE (IF Head(list) \in Range(channels) THEN <<Head(list)>> ELSE <<>>)
       \o filterIncluded(Tail(list), channels)

\* a variant that leaves the channels of the object as they are stored
maskKeepingChannels(object, channels, session) ==
  IF ~session.present \/ object.actor # session.actor
  THEN [object EXCEPT
          !.allowed = IF object.allowed.present /\ session.present
                      THEN AllowedOf(<<session.actor>>) ELSE NoAllowed]
  ELSE object

\* a variant that leaves the allowed list of the object as it is stored
maskKeepingAllowed(object, channels, session) ==
  IF ~session.present \/ object.actor # session.actor
  THEN [object EXCEPT !.channels = filterIncluded(object.channels, channels)]
  ELSE object

maskGraffitiObject(object, channels, session) ==
  IF ~session.present \/ object.actor # session.actor
  THEN [object EXCEPT
          !.allowed = IF object.allowed.present /\ session.present
                      THEN AllowedOf(<<session.actor>>) ELSE NoAllowed,
          !.channels = filterIncluded(object.channels, channels)]
  ELSE object

\* the schema {properties: {lastModified: {minimum: 2, maximum: 2}}}
BoundedSchema == "lastModified"
SchemaBounds == [minimum |-> 2, maximum |-> 2]

\* the predicate ajv compiles from a schema
validate(schema, object) ==
  CASE schema = "empty" -> TRUE
    [] schema = "v1" -> object.value = "v1"
    [] schema = BoundedSchema ->
         "lastModified" \in DOMAIN object
         => /\ object.lastModified >= SchemaBounds.minimum
            /\ object.lastModified <= SchemaBounds.maximum
    [] OTHER -> FALSE

(***************************************************************************)
(* The view objectsPerChannelAndLastModified and its range query.          *)
(***************************************************************************)
\* character codes, for the order of keys
CharCode(c) ==
  CASE c = "!" -> 33 [] c = "%" -> 37 [] c = "," -> 44 [] c = "-" -> 45 [] c = "/" -> 47
    [] c = "0" -> 48 [] c = "1" -> 49 [] c = "2" -> 50 [] c = "3" -> 51 [] c = "4" -> 52
    [] c = "5" -> 53 [] c = "6" -> 54 [] c = "7" -> 55 [] c = "8" -> 56 [] c = "9" -> 57
    [] c = ":" -> 58 [] c = "?" -> 63 [] c = "A" -> 65 [] c = "F" -> 70 [] c = "_" -> 95
    [] c = "a" -> 97 [] c = "b" -> 98 [] c = "c" -> 99 [] c = "w" -> 119 [] c = "x" -> 120
    [] c = "y" -> 121 [] c = "z" -> 122 [] c = "~" -> 126
    [] c = "graffiti:" -> 103
    [] c = "uffff" -> 65535
    [] OTHER -> 0

\* s <= t in the order of strings
RECURSIVE stringLeq(_, _)
stringLeq(s, t) ==
  IF s = <<>> THEN TRUE
  ELSE IF t = <<>> THEN FALSE
  ELSE IF Head(s) # Head(t) THEN CharCode(Head(s)) < CharCode(Head(t))
  ELSE stringLeq(Tail(s), Tail(t))

\* Number.prototype.toString() of a non-negative integer
RECURSIVE numberToString(_)
numberToString(n) ==
  LET digit == <<"0", "1", "2", "3", "4", "5", "6", "7", "8", "9">>[(n % 10) + 1]
  IN  IF n < 10 THEN <<digit>> ELSE numberToString(n \div 10) \o <<digit>>

\* a variant that pads nothing
padStartNone(s, width) == s

\* String.prototype.padStart(width, "0")
padStart(s, width) == [i \in 1..(width - Len(s)) |-> "0"] \o s

paddedLastModified(lastModified) == padStart(numberToString(lastModified), 15)

\* the key the map function emits for one channel of a document
viewKey(channel, lastModified) ==
  encodeURIComponent(channel) \o <<"/">> \o paddedLastModified(lastModified)

\* a variant that also emits a row, under the first channel, for an object without channels
viewRowsOrphansToo(store) ==
  UNION {{[key |-> viewKey(channel, store[u].lastModified), id |-> u, pos |-> 1] :
            channel \in IF store[u].channels = <<>> THEN {c1} ELSE Range(store[u].channels)} :
         u \in DOMAIN store}

\* the rows of the view: one per document and entry of its channels
viewRows(store) ==
  UNION {{[key |-> viewKey(store[u].channels[i], store[u].lastModified), id |-> u, pos |-> i] :
            i \in DOMAIN store[u].channels} : u \in DOMAIN store}

\* rows are ordered by key, then by document id
rowLeq(r, t) ==
  IF r.key # t.key THEN stringLeq(r.key, t.key)
  ELSE IF r.id # t.id THEN stringLeq(r.id, t.id)
  ELSE r.pos <= t.pos

\* a variant that gives the rows from the last to the first
RECURSIVE sortRowsDescending(_)
sortRowsDescending(rows) ==
  IF rows = {} THEN <<>>
  ELSE LET last == CHOOSE r \in rows : \A t \in rows : rowLeq(t, r)
       IN  <<last>> \o sortRowsDescending(rows \ {last})

RECURSIVE sortRows(_)
sortRows(rows) ==
  IF rows = {} THEN <<>>
  ELSE LET first == CHOOSE r \in rows : \A t \in rows : rowLeq(r, t)
       IN  <<first>> \o sortRows(rows \ {first})

\* db.query(view, {startkey, endkey, include_docs: true}): the documents of the rows
query(store, startkey, endkey) ==
  LET rows == sortRows({r \in viewRows(store) :
                          stringLeq(startkey, r.key) /\ stringLeq(r.key, endkey)})
  IN  [i \in DOMAIN rows |-> [id |-> rows[i].id, doc |-> store[rows[i].id]]]

(***************************************************************************)
(* State.                                                                  *)
(***************************************************************************)
VARIABLES
  db,       \* the PouchDB documents: url -> GraffitiObjectData with its revision
  seq,      \* the database's update_seq
  ops,      \* the post and delete calls in flight, one per slot
  reader,   \* the get, discover or continue call in flight, or the continuation held
  posted,   \* history: for each url, the object post returned and the session it was given
  wrote,    \* history: for each url, the actors of the sessions whose puts committed
  deleted,  \* history: the urls whose delete returned without an error
  pace,     \* Date.now(), the options, and the pacing of a stream and its continuations
  codec,    \* a call of the url codec: its arguments, the url and what decoding returned
  docs,     \* GraffitiLocalDatabase: the PouchDB documents, _id -> object with its revision
  now,      \* GraffitiLocalDatabase: new Date().getTime()
  calls,    \* GraffitiLocalDatabase: the put calls in flight, one per slot
  suffixes, \* GraffitiLocalDatabase: a call of queryLastModifiedSuffixes, schema and result
  keys,     \* a comparison of two padded timestamps and a scan of the view between them
  loggedInActors,  \* GraffitiLocalSessionManager: the actors logged in (objects.ts era)
  loggedInHandles, \* GraffitiLocalSessionManager: the handles logged in (session-manager.ts)
  window,          \* GraffitiLocalSessionManager: typeof window !== "undefined"
  localStorage,    \* GraffitiLocalSessionManager: the item window.localStorage keeps
  managerCall,     \* GraffitiLocalSessionManager: the last call of login or logout
  dispatched       \* GraffitiLocalSessionManager: the events dispatched on sessionEvents

\* the state of GraffitiLocalDatabase (database.ts)
databaseVars == <<docs, now, calls, suffixes>>

\* the state of GraffitiLocalSessionManager
managerVars == <<loggedInActors, loggedInHandles, window, localStorage, managerCall, dispatched>>

vars == <<db, seq, ops, reader, posted, wrote, deleted, pace, codec, databaseVars, keys, managerVars>>

\* slots for concurrent writers
Procs == {1, 2}

Idle == [kind |-> "idle", pc |-> "idle"]

NoObject == [url |-> <<>>, actor |-> <<>>, value |-> "", channels |-> <<>>, allowed |-> NoAllowed]

Failure(e) == [status |-> e, object |-> NoObject]
Success(o) == [status |-> "ok", object |-> o]

\* options.continueBuffer ?? 2000
DefaultContinueBuffer == 2000

NoOptions == [present |-> FALSE, continueBuffer |-> 0]
ContinueBufferOptions ==
  {NoOptions, [present |-> TRUE, continueBuffer |-> 0], [present |-> TRUE, continueBuffer |-> 1]}

continueBuffer(options) ==
  IF options.present THEN options.continueBuffer ELSE DefaultContinueBuffer

\* a first stream that scans at time 0
FirstStream(options) ==
  [options |-> options, now |-> 0, ticks |-> 0, pc |-> "scan", cont |-> FALSE,
   lastDiscovered |-> 0, called |-> 0, slept |-> FALSE, wake |-> 0, scanStart |-> 0]

\* no call of the codec
NoCodec ==
  [pc |-> "idle", actor |-> <<>>, id |-> <<>>, url |-> <<>>,
   decoded |-> [ok |-> FALSE, error |-> "", actor |-> <<>>, id |-> <<>>]]

\* no call of queryLastModifiedSuffixes
NoSuffixes == [pc |-> "idle"]

\* no comparison of keys
NoKeys == [pc |-> "idle"]

\* localStorage.getItem returns null for an item that was never set
NoItem == [present |-> FALSE, value |-> <<>>]
ItemOf(string) == [present |-> TRUE, value |-> string]

NoCall == [kind |-> "none"]

\* no session manager is in use, and no comparison of keys is made
managerClosed ==
  /\ keys = NoKeys
  /\ loggedInActors = <<>>
  /\ loggedInHandles = <<>>
  /\ window = FALSE
  /\ localStorage = NoItem
  /\ managerCall = NoCall
  /\ dispatched = <<>>

\* no GraffitiLocalDatabase is in use
databaseClosed ==
  /\ docs = <<>>
  /\ now = 0
  /\ calls = [p \in Procs |-> Idle]
  /\ suffixes = NoSuffixes

\* the design document is put when the database is opened
Init ==
  /\ db = <<>>
  /\ seq = 1
  /\ ops = [p \in Procs |-> Idle]
  /\ reader = Idle
  /\ posted = <<>>
  /\ wrote = <<>>
  /\ deleted = {}
  /\ pace = FirstStream(NoOptions)
  /\ codec = NoCodec
  /\ managerClosed
  /\ databaseClosed

\* a variant whose clock runs backwards
getOperationClockCountingDown == MaxSeq - seq

\* a variant of the getter that puts the design document on every use
openedPuttingAgain(updateSeq) == updateSeq + 1

\* the db getter: on its first use the database is created and the design document
\* put into it, which takes the update sequence of a new database from 0 to 1; the
\* conflict with the design document of an existing database is ignored
opened(updateSeq) == IF updateSeq = 0 THEN 1 ELSE updateSeq

\* a variant that reads the sequence number the next write will have
getOperationClockOfNextWrite == opened(seq) + 1

\* (await this.db).info().update_seq
getOperationClock == opened(seq)

\* a variant that writes over the document of a taken id
putNewOverwriting(store, url, doc) ==
  [ok |-> TRUE, store |-> [u \in DOMAIN store \cup {url} |->
                             IF u = url THEN [doc EXCEPT !.rev = 1] ELSE store[u]]]

\* a variant that gives every other document a new revision as well
putNewTouchingAll(store, url, doc) ==
  IF url \in DOMAIN store
  THEN [ok |-> FALSE, store |-> store]
  ELSE [ok |-> TRUE, store |-> [u \in DOMAIN store \cup {url} |->
                                  IF u = url THEN [doc EXCEPT !.rev = 1]
                                  ELSE [store[u] EXCEPT !.rev = @ + 1]]]

\* PouchDB put of a new document (no _rev): a conflict when the id is taken
putNew(store, url, doc) ==
  IF url \in DOMAIN store
  THEN [ok |-> FALSE, store |-> store]
  ELSE [ok |-> TRUE, store |-> [u \in DOMAIN store \cup {url} |->
                                  IF u = url THEN [doc EXCEPT !.rev = 1] ELSE store[u]]]

\* a variant that reports a conflict whatever the _rev is
putExistingConflicting(store, url, doc) == [ok |-> FALSE, store |-> store]

\* PouchDB put of a document read before: a conflict when its _rev is not the current one
putExisting(store, url, doc) ==
  IF url \notin DOMAIN store \/ store[url].rev # doc.rev
  THEN [ok |-> FALSE, store |-> store]
  ELSE [ok |-> TRUE, store |-> [store EXCEPT ![url] = [doc EXCEPT !.rev = doc.rev + 1]]]

recordWriter(w, url, actor) ==
  [u \in DOMAIN w \cup {url} |-> (IF u \in DOMAIN w THEN w[u] ELSE {}) \cup
                                   (IF u = url THEN {actor} ELSE {})]

recordPosted(h, url, object, session) ==
  [u \in DOMAIN h \cup {url} |->
     IF u = url THEN [object |-> object, session |-> session] ELSE h[u]]

\* a call may start in a free slot; the second slot is used while the first is taken
Free(p) == ops[p] = Idle /\ \A q \in Procs : q < p => ops[q] # Idle

(***************************************************************************)
(* post                                                                    *)
(***************************************************************************)
\* the call up to the read of the clock
postClock(p, partial, session, id) ==
  /\ Free(p)
  /\ ops' = [ops EXCEPT ![p] =
       [kind |-> "post", pc |-> "put", session |-> session, partial |-> partial,
        url |-> encodeObjectUrl(session.actor, id), clock |-> getOperationClock]]
  /\ seq' = opened(seq)
  /\ UNCHANGED <<db, reader, posted, wrote, deleted, pace, codec, databaseVars, keys, managerVars>>

\* the object post returns
postReturn(partial, actor, url) ==
  [url |-> url, actor |-> actor, value |-> partial.value,
   channels |-> partial.channels, allowed |-> partial.allowed]

\* the put and the return
postPut(p) ==
  /\ ops[p].kind = "post" /\ ops[p].pc = "put"
  /\ seq < MaxSeq \/ ops[p].url \in DOMAIN db
  /\ LET o == ops[p]
         doc == [tombstone |-> FALSE, value |-> o.partial.value,
                 channels |-> o.partial.channels, allowed |-> o.partial.allowed,
                 lastModified |-> o.clock, rev |-> 0]
         put == putNew(db, o.url, doc)
         object == postReturn(o.partial, o.session.actor, o.url)
         done(r) == [kind |-> "post", pc |-> "done", session |-> o.session,
                     url |-> o.url, result |-> r]
     IN  IF put.ok
         THEN /\ db' = put.store
              /\ seq' = seq + 1
              /\ wrote' = recordWriter(wrote, o.url, o.session.actor)
              /\ posted' = recordPosted(posted, o.url, object, o.session)
              /\ ops' = [ops EXCEPT ![p] = done(Success(object))]
              /\ UNCHANGED <<reader, deleted, pace, codec, databaseVars, keys, managerVars>>
         ELSE /\ ops' = [ops EXCEPT ![p] = done(Failure("conflict"))]
              /\ UNCHANGED <<db, seq, reader, posted, wrote, deleted, pace, codec, databaseVars, keys, managerVars>>

(***************************************************************************)
(* delete                                                                  *)
(***************************************************************************)
\* a variant without the comparison of the url's actor with the session's
deleteCheckAnyActor(store, url, session) ==
  LET decoded == decodeObjectUrl(url)
  IN  IF ~decoded.ok THEN decoded.error
      ELSE IF url \notin DOMAIN store THEN "NotFound"
      ELSE IF store[url].tombstone THEN "NotFound"
      ELSE ""

\* a variant without the test of the tombstone flag
deleteCheckAnyRecord(store, url, session) ==
  LET decoded == decodeObjectUrl(url)
  IN  IF ~decoded.ok THEN decoded.error
      ELSE IF decoded.actor # session.actor THEN "Forbidden"
      ELSE IF url \notin DOMAIN store THEN "NotFound"
      ELSE ""

\* what delete throws before it writes, "" when it goes on to write
deleteCheck(store, url, session) ==
  LET decoded == decodeObjectUrl(url)
  IN  IF ~decoded.ok THEN decoded.error
      ELSE IF decoded.actor # session.actor THEN "Forbidden"
      ELSE IF url \notin DOMAIN store THEN "NotFound"
      ELSE IF store[url].tombstone THEN "NotFound"
      ELSE ""

\* a variant that empties the object as it marks it
tombstoneOfEmptied(doc, clock) ==
  [doc EXCEPT !.tombstone = TRUE, !.lastModified = clock, !.value = "",
              !.channels = <<>>, !.allowed = AllowedOf(<<>>)]

\* doc.tombstone = true; doc.lastModified = the clock
tombstoneOf(doc, clock) == [doc EXCEPT !.tombstone = TRUE, !.lastModified = clock]

\* the call up to the read of the document
deleteGet(p, url, session) ==
  /\ Free(p)
  /\ LET call == [kind |-> "delete", session |-> session, url |-> url]
         error == deleteCheck(db, url, session)
     IN  /\ ops' = [ops EXCEPT ![p] =
              IF error # "" THEN call @@ [pc |-> "done", result |-> Failure(error)]
              ELSE call @@ [pc |-> "clock", doc |-> db[url]]]
         \* the url and the actor are checked before the database is used
         /\ seq' = IF error \in {"", "NotFound"} THEN opened(seq) ELSE seq
  /\ UNCHANGED <<db, reader, posted, wrote, deleted, pace, codec, databaseVars, keys, managerVars>>

\* doc.tombstone = true; doc.lastModified = await this.getOperationClock()
deleteClock(p) ==
  /\ ops[p].kind = "delete" /\ ops[p].pc = "clock"
  /\ ops' = [ops EXCEPT ![p].pc = "put",
                        ![p].doc = tombstoneOf(@, getOperationClock)]
  /\ UNCHANGED <<db, seq, reader, posted, wrote, deleted, pace, codec, databaseVars, keys, managerVars>>

\* the put and the return
deletePut(p) ==
  /\ ops[p].kind = "delete" /\ ops[p].pc = "put"
  /\ seq < MaxSeq \/ ~putExisting(db, ops[p].url, ops[p].doc).ok
  /\ LET o == ops[p]
         put == putExisting(db, o.url, o.doc)
         done(r) == [kind |-> "delete", pc |-> "done", session |-> o.session,
                     url |-> o.url, result |-> r]
     IN  IF put.ok
         THEN /\ db' = put.store
              /\ seq' = seq + 1
              /\ wrote' = recordWriter(wrote, o.url, o.session.actor)
              /\ deleted' = deleted \cup {o.url}
              /\ ops' = [ops EXCEPT ![p] = done(Success(NoObject))]
              /\ UNCHANGED <<reader, posted, pace, codec, databaseVars, keys, managerVars>>
         ELSE /\ ops' = [ops EXCEPT ![p] = done(Failure("NotFound"))]
              /\ UNCHANGED <<db, seq, reader, posted, wrote, deleted, pace, codec, databaseVars, keys, managerVars>>

\* the caller takes the result of a post or delete; the slot is free for the next call
return(p) ==
  /\ ops[p].pc = "done"
  /\ ops' = [ops EXCEPT ![p] = Idle]
  /\ UNCHANGED <<db, seq, reader, posted, wrote, deleted, pace, codec, databaseVars, keys, managerVars>>

(***************************************************************************)
(* get                                                                     *)
(***************************************************************************)
\* a variant without the test of the tombstone flag
getResultAnyRecord(store, url, schema, session) ==
  IF url \notin DOMAIN store THEN Failure("NotFound")
  ELSE LET decoded == decodeObjectUrl(url)
           doc == store[url]
           object == [url |-> url, actor |-> decoded.actor, value |-> doc.value,
                      channels |-> doc.channels, allowed |-> doc.allowed]
       IN  IF ~decoded.ok THEN Failure(decoded.error)
           ELSE IF ~isActorAllowedGraffitiObject(object, session) THEN Failure("NotFound")
           ELSE LET masked == maskGraffitiObject(object, <<>>, session)
                IN  IF ~validate(schema, masked) THEN Failure("SchemaMismatch")
                    ELSE Success(masked)

\* a variant that validates against the schema before it tests the viewer
getResultValidateFirst(store, url, schema, session) ==
  IF url \notin DOMAIN store THEN Failure("NotFound")
  ELSE IF store[url].tombstone THEN Failure("NotFound")
  ELSE LET decoded == decodeObjectUrl(url)
           doc == store[url]
           object == [url |-> url, actor |-> decoded.actor, value |-> doc.value,
                      channels |-> doc.channels, allowed |-> doc.allowed]
           masked == maskGraffitiObject(object, <<>>, session)
       IN  IF ~decoded.ok THEN Failure(decoded.error)
           ELSE IF ~validate(schema, masked) THEN Failure("SchemaMismatch")
           ELSE IF ~isActorAllowedGraffitiObject(object, session) THEN Failure("NotFound")
           ELSE Success(masked)

\* what get returns or throws when it reads the store in state `store`
getResult(store, url, schema, session) ==
  IF url \notin DOMAIN store THEN Failure("NotFound")
  ELSE IF store[url].tombstone THEN Failure("NotFound")
  ELSE LET decoded == decodeObjectUrl(url)
           doc == store[url]
           object == [url |-> url, actor |-> decoded.actor, value |-> doc.value,
                      channels |-> doc.channels, allowed |-> doc.allowed]
       IN  IF ~decoded.ok THEN Failure(decoded.error)
           ELSE IF ~isActorAllowedGraffitiObject(object, session) THEN Failure("NotFound")
           ELSE LET masked == maskGraffitiObject(object, <<>>, session)
                IN  IF ~validate(schema, masked) THEN Failure("SchemaMismatch")
                    ELSE Success(masked)

\* the caller has no call in flight: it may hold a continuation
ReaderFree == reader.pc \in {"idle", "held"}

get(url, schema, session) ==
  /\ ReaderFree
  /\ reader' = [kind |-> "get", pc |-> "done", session |-> session, url |-> url,
                schema |-> schema, result |-> getResult(db, url, schema, session)]
  /\ seq' = opened(seq)
  /\ UNCHANGED <<db, ops, posted, wrote, deleted, pace, codec, databaseVars, keys, managerVars>>

(***************************************************************************)
(* discover and its continuations                                          *)
(***************************************************************************)
\* a variant that yields the whole object of a tombstone
streamEntryWholeObject(tombstone, object) == [tombstone |-> tombstone, object |-> object]

\* tombstone ? {tombstone: true, object: {url}} : {object}
streamEntry(tombstone, object) ==
  [tombstone |-> tombstone,
   object |-> IF tombstone THEN [NoObject EXCEPT !.url = object.url] ELSE object]

\* a variant of the loop that does not skip the urls already processed
RECURSIVE processRowsUnmarked(_, _, _, _, _, _)
processRowsUnmarked(rows, discoverChannels, schema, session, cont, st) ==
  IF rows = <<>> THEN st
  ELSE
    LET url == Head(rows).id
        doc == Head(rows).doc
        seen == [st EXCEPT !.processed = @ \cup {url}]
        decoded == decodeObjectUrl(url)
        object == [url |-> url, actor |-> decoded.actor, value |-> doc.value,
                   channels |-> doc.channels, allowed |-> doc.allowed]
        masked == maskGraffitiObject(object, discoverChannels, session)
        next ==
          IF ~cont /\ doc.tombstone THEN seen
          ELSE IF ~isActorAllowedGraffitiObject(object, session) THEN seen
          ELSE IF ~validate(schema, masked) THEN seen
          ELSE [seen EXCEPT !.events = Append(@, streamEntry(doc.tombstone, masked))]
    IN  processRowsUnmarked(Tail(rows), discoverChannels, schema, session, cont, next)

\* a variant of the loop that passes over every tombstone
RECURSIVE processRowsLiveOnly(_, _, _, _, _, _)
processRowsLiveOnly(rows, discoverChannels, schema, session, cont, st) ==
  IF rows = <<>> THEN st
  ELSE
    LET url == Head(rows).id
        doc == Head(rows).doc
        seen == [st EXCEPT !.processed = @ \cup {url}]
        decoded == decodeObjectUrl(url)
        object == [url |-> url, actor |-> decoded.actor, value |-> doc.value,
                   channels |-> doc.channels, allowed |-> doc.allowed]
        masked == maskGraffitiObject(object, discoverChannels, session)
        next ==
          IF url \in st.processed THEN st
          ELSE IF doc.tombstone THEN seen
          ELSE IF ~isActorAllowedGraffitiObject(object, session) THEN seen
          ELSE IF ~validate(schema, masked) THEN seen
          ELSE [seen EXCEPT !.events = Append(@, streamEntry(doc.tombstone, masked))]
    IN  processRowsLiveOnly(Tail(rows), discoverChannels, schema, session, cont, next)

\* the loop of discoverMeta over the rows of one query; st = [processed, events]
RECURSIVE processRows(_, _, _, _, _, _)
processRows(rows, discoverChannels, schema, session, cont, st) ==
  IF rows = <<>> THEN st
  ELSE
    LET url == Head(rows).id
        doc == Head(rows).doc
        seen == [st EXCEPT !.processed = @ \cup {url}]
        decoded == decodeObjectUrl(url)
        object == [url |-> url, actor |-> decoded.actor, value |-> doc.value,
                   channels |-> doc.channels, allowed |-> doc.allowed]
        masked == maskGraffitiObject(object, discoverChannels, session)
        next ==
          IF url \in st.processed THEN st
          ELSE IF ~cont /\ doc.tombstone THEN seen
          ELSE IF ~isActorAllowedGraffitiObject(object, session) THEN seen
          ELSE IF ~validate(schema, masked) THEN seen
          ELSE [seen EXCEPT !.events = Append(@, streamEntry(doc.tombstone, masked))]
    IN  processRows(Tail(rows), discoverChannels, schema, session, cont, next)

\* a variant that starts every scan at the beginning of the channel
startKeySuffixEmpty(cont, ifModifiedSince) == <<>>

startKeySuffix(cont, ifModifiedSince) ==
  IF cont THEN paddedLastModified(ifModifiedSince) ELSE <<>>

\* a variant without the high character that closes the range
endKeySuffixEmpty == <<>>

endKeySuffix == <<"uffff">>

\* one turn of the loop over the channels: the query and the loop over its rows
scanChannel(store, channel, discoverChannels, schema, session, cont, ifModifiedSince, st) ==
  LET keyPrefix == encodeURIComponent(channel) \o <<"/">>
      rows == query(store, keyPrefix \o startKeySuffix(cont, ifModifiedSince),
                    keyPrefix \o endKeySuffix)
  IN  processRows(rows, discoverChannels, schema, session, cont, st)

\* session?.actor: a one-element sequence, or empty for undefined
actorOf(session) == IF session.present THEN <<session.actor>> ELSE <<>>

\* a variant that drops the session of a continued call
discoverMetaWithoutSession(via, channels, schema, session, cont, ifModifiedSince) ==
  [kind |-> "discover", pc |-> "scan", via |-> via, channels |-> channels,
   schema |-> schema, session |-> IF cont THEN NoSession ELSE session, cont |-> cont,
   ifModifiedSince |-> ifModifiedSince, index |-> 1, processed |-> {}, events |-> <<>>,
   startTime |-> getOperationClock]

\* discoverMeta up to the read of the clock
discoverMeta(via, channels, schema, session, cont, ifModifiedSince) ==
  [kind |-> "discover", pc |-> "scan", via |-> via, channels |-> channels,
   schema |-> schema, session |-> session, cont |-> cont,
   ifModifiedSince |-> ifModifiedSince, index |-> 1, processed |-> {}, events |-> <<>>,
   startTime |-> getOperationClock]

\* a stream that throws before it yields anything
thrown(via, channels, schema, session, e) ==
  [kind |-> "discover", pc |-> "done", via |-> via, channels |-> channels,
   schema |-> schema, session |-> session, cont |-> TRUE, events |-> <<>>,
   result |-> [status |-> e, ifModifiedSince |-> 0]]

discover(channels, schema, session) ==
  /\ ReaderFree
  /\ reader' = discoverMeta("discover", channels, schema, session, FALSE, 0)
  /\ seq' = opened(seq)
  /\ UNCHANGED <<db, ops, posted, wrote, deleted, pace, codec, databaseVars, keys, managerVars>>

\* the query of the next channel and the loop over its rows; after the last channel
\* the stream ends with the continuation and its cursor
discoverScan ==
  /\ reader.kind = "discover" /\ reader.pc = "scan"
  /\ LET st == scanChannel(db, reader.channels[reader.index], reader.channels,
                           reader.schema, reader.session, reader.cont,
                           reader.ifModifiedSince,
                           [processed |-> reader.processed, events |-> reader.events])
         \* discover passes on no tombstone
         passed == IF reader.cont THEN st.events
                   ELSE SelectSeq(st.events, LAMBDA e : ~e.tombstone)
     IN  reader' =
           IF reader.index < Len(reader.channels)
           THEN [reader EXCEPT !.index = @ + 1, !.processed = st.processed,
                               !.events = passed]
           ELSE [kind |-> "discover", pc |-> "done", via |-> reader.via,
                 channels |-> reader.channels, schema |-> reader.schema,
                 session |-> reader.session, cont |-> reader.cont, events |-> passed,
                 result |-> [status |-> "ok", ifModifiedSince |-> reader.startTime]]
  /\ UNCHANGED <<db, seq, ops, posted, wrote, deleted, pace, codec, databaseVars, keys, managerVars>>

\* the caller takes the result of a get or a stream, and keeps a stream's continuation
readerReturn ==
  /\ reader.pc = "done"
  /\ reader' = IF reader.kind = "discover" /\ reader.result.status = "ok"
               THEN [kind |-> "continuation", pc |-> "held", channels |-> reader.channels,
                     schema |-> reader.schema, session |-> reader.session,
                     ifModifiedSince |-> reader.result.ifModifiedSince]
               ELSE Idle
  /\ UNCHANGED <<db, seq, ops, posted, wrote, deleted, pace, codec, databaseVars, keys, managerVars>>

\* a variant without the comparison of the two actors
discoverContinueAnyActor(via, channels, schema, argsSession, ifModifiedSince, session) ==
  discoverMeta(via, channels, schema, argsSession, TRUE, ifModifiedSince)

\* discoverContinue(args, continueParams, session)
discoverContinue(via, channels, schema, argsSession, ifModifiedSince, session) ==
  IF actorOf(session) # actorOf(argsSession)
  THEN thrown(via, channels, schema, argsSession, "Forbidden")
  ELSE discoverMeta(via, channels, schema, argsSession, TRUE, ifModifiedSince)

\* the stream the continue function of the continuation `held` returns
continueStream(held, session) ==
  discoverContinue("continue", held.channels, held.schema, held.session,
                   held.ifModifiedSince, session)

\* the continue function of the continuation held
continue(session) ==
  /\ reader.pc = "held"
  /\ reader' = continueStream(reader, session)
  \* a call that is refused throws before the database is used
  /\ seq' = IF reader'.pc = "done" THEN seq ELSE opened(seq)
  /\ UNCHANGED <<db, ops, posted, wrote, deleted, pace, codec, databaseVars, keys, managerVars>>

\* the cursor of a continuation
discoverCursor(channels, schema, session, ifModifiedSince) ==
  [channels |-> channels, schema |-> schema, actor |-> actorOf(session),
   continueParams |-> [ifModifiedSince |-> ifModifiedSince]]

\* the stream continueDiscover returns for the cursor of the continuation `held`
continueDiscoverStream(held, session) ==
  LET cursor == discoverCursor(held.channels, held.schema, held.session,
                               held.ifModifiedSince)
      truthy == cursor.actor # <<>> /\ cursor.actor # << <<>> >>
  IN  IF truthy /\ cursor.actor # actorOf(session)
      THEN thrown("continueDiscover", cursor.channels, cursor.schema, session, "Forbidden")
      ELSE discoverContinue("continueDiscover", cursor.channels, cursor.schema, session,
                            cursor.continueParams.ifModifiedSince, NoSession)

\* continueDiscover(cursor, session) with the cursor of the continuation held
continueDiscover(session) ==
  /\ reader.pc = "held"
  /\ reader' = continueDiscoverStream(reader, session)
  /\ seq' = IF reader'.pc = "done" THEN seq ELSE opened(seq)
  /\ UNCHANGED <<db, ops, posted, wrote, deleted, pace, codec, databaseVars, keys, managerVars>>

(***************************************************************************)
(* The specification.  A result is taken by its caller before any other    *)
(* call moves on: the caller resumes in a microtask, ahead of the          *)
(* callbacks of the database.                                              *)
(***************************************************************************)
Pending == reader.pc = "done" \/ \E p \in Procs : ops[p].pc = "done"

\* one writer at a time, next to the reader
Writers == {1}

Next ==
  \/ \E p \in Procs : return(p)
  \/ readerReturn
  \/ ~Pending /\ \E p \in Writers, partial \in PostPartials, session \in Sessions, id \in Ids :
       postClock(p, partial, session, id)
  \/ ~Pending /\ \E p \in Writers : postPut(p)
  \/ ~Pending /\ \E p \in Writers, url \in MintedUrls \cup {BadUrl}, session \in Sessions :
       deleteGet(p, url, session)
  \/ ~Pending /\ \E p \in Writers : deleteClock(p)
  \/ ~Pending /\ \E p \in Writers : deletePut(p)
  \/ ~Pending /\ \E url \in MintedUrls, schema \in Schemas, session \in Viewers :
       get(url, schema, session)
  \/ ~Pending /\ \E channels \in DiscoverChannels, schema \in DiscoverSchemas, session \in Viewers :
       discover(channels, schema, session)
  \/ ~Pending /\ discoverScan
  \/ ~Pending /\ \E session \in Viewers : continue(session)
  \/ ~Pending /\ \E session \in Viewers : continueDiscover(session)

Spec == Init /\ [][Next]_vars

\* two writers at a time and no reader
NextWriters ==
  \/ \E p \in Procs : return(p)
  \/ ~Pending /\ \E p \in Procs, partial \in PostPartials, session \in Sessions, id \in Ids :
       postClock(p, partial, session, id)
  \/ ~Pending /\ \E p \in Procs : postPut(p)
  \/ ~Pending /\ \E p \in Procs, url \in MintedUrls \cup {BadUrl}, session \in Sessions :
       deleteGet(p, url, session)
  \/ ~Pending /\ \E p \in Procs : deleteClock(p)
  \/ ~Pending /\ \E p \in Procs : deletePut(p)

SpecWriters == Init /\ [][NextWriters]_vars

\* the streams with one writer next to them: posts and deletes of one actor, read
\* with and without a schema, over two channels and over one channel listed twice
StreamChannels == {<<c2, c1>>, <<c1, c1>>}
StreamWriters == {SessionOf(<<":">>)}

NextStreams ==
  \/ \E p \in Procs : return(p)
  \/ readerReturn
  \/ ~Pending /\ \E p \in Writers, partial \in PostPartials, session \in StreamWriters, id \in Ids :
       postClock(p, partial, session, id)
  \/ ~Pending /\ \E p \in Writers : postPut(p)
  \/ ~Pending /\ \E p \in Writers, url \in MintedUrls, session \in StreamWriters :
       deleteGet(p, url, session)
  \/ ~Pending /\ \E p \in Writers : deleteClock(p)
  \/ ~Pending /\ \E p \in Writers : deletePut(p)
  \/ ~Pending /\ \E channels \in StreamChannels, schema \in Schemas, session \in Viewers :
       discover(channels, schema, session)
  \/ ~Pending /\ discoverScan
  \/ ~Pending /\ reader.pc = "held" /\ continue(reader.session)

SpecStreams == Init /\ [][NextStreams]_vars

\* the change feed with two writers next to it: public posts and deletes of one
\* actor, and the streams of that actor
FeedPartials == {partial \in PostPartials : ~partial.allowed.present}

NextFeed ==
  \/ \E p \in Procs : return(p)
  \/ readerReturn
  \/ ~Pending /\ \E p \in Procs, partial \in FeedPartials, session \in StreamWriters, id \in Ids :
       postClock(p, partial, session, id)
  \/ ~Pending /\ \E p \in Procs : postPut(p)
  \/ ~Pending /\ \E p \in Procs, url \in MintedUrls, session \in StreamWriters :
       deleteGet(p, url, session)
  \/ ~Pending /\ \E p \in Procs : deleteClock(p)
  \/ ~Pending /\ \E p \in Procs : deletePut(p)
  \/ ~Pending /\ \E channels \in DiscoverChannels, schema \in DiscoverSchemas, session \in StreamWriters :
       discover(channels, schema, session)
  \/ ~Pending /\ discoverScan
  \/ ~Pending /\ reader.pc = "held" /\ continue(reader.session)

SpecFeed == Init /\ [][NextFeed]_vars

(***************************************************************************)
(* The pacing of continuations (discoverMeta, before the scan).           *)
(***************************************************************************)
\* the times that may pass between two steps, in milliseconds
Delays == {1, DefaultContinueBuffer - 1, DefaultContinueBuffer}

passTime(d) ==
  /\ pace.ticks < MaxTicks
  /\ pace' = [pace EXCEPT !.now = @ + d, !.ticks = @ + 1]
  /\ UNCHANGED <<db, seq, ops, reader, posted, wrote, deleted, codec, databaseVars, keys, managerVars>>

\* return {lastDiscovered: Date.now(), ifModifiedSince: startTime}
paceReturn ==
  /\ pace.pc = "scan"
  /\ pace' = [pace EXCEPT !.pc = "held", !.lastDiscovered = pace.now]
  /\ UNCHANGED <<db, seq, ops, reader, posted, wrote, deleted, codec, databaseVars, keys, managerVars>>

\* a variant that subtracts the other way round
setTimeoutDelayInverted(buffer, timeElapsedSinceLastDiscover) ==
  timeElapsedSinceLastDiscover - buffer

\* the delay given to setTimeout
setTimeoutDelay(buffer, timeElapsedSinceLastDiscover) ==
  buffer - timeElapsedSinceLastDiscover

\* the continuation is called: discoverMeta up to the start of the timer, or to the
\* scan when the buffer has gone by
paceContinue ==
  /\ pace.pc = "held"
  /\ LET buffer == continueBuffer(pace.options)
         timeElapsedSinceLastDiscover == pace.now - pace.lastDiscovered
     IN  pace' = IF timeElapsedSinceLastDiscover < buffer
                 THEN [pace EXCEPT !.pc = "sleep", !.cont = TRUE, !.called = pace.now,
                                   !.wake = pace.now +
                                     setTimeoutDelay(buffer, timeElapsedSinceLastDiscover)]
                 ELSE [pace EXCEPT !.pc = "scan", !.cont = TRUE, !.called = pace.now,
                                   !.slept = FALSE, !.scanStart = pace.now]
  /\ UNCHANGED <<db, seq, ops, reader, posted, wrote, deleted, codec, databaseVars, keys, managerVars>>

\* the timer fires, no earlier than the delay it was given, and the scan begins
paceTimeout ==
  /\ pace.pc = "sleep"
  /\ pace.now >= pace.wake
  /\ pace' = [pace EXCEPT !.pc = "scan", !.slept = TRUE, !.scanStart = pace.now]
  /\ UNCHANGED <<db, seq, ops, reader, posted, wrote, deleted, codec, databaseVars, keys, managerVars>>

InitPace ==
  /\ db = <<>>
  /\ seq = 1
  /\ ops = [p \in Procs |-> Idle]
  /\ reader = Idle
  /\ posted = <<>>
  /\ wrote = <<>>
  /\ deleted = {}
  /\ pace \in {FirstStream(options) : options \in ContinueBufferOptions}
  /\ codec = NoCodec
  /\ managerClosed
  /\ databaseClosed

NextPace ==
  \/ \E d \in Delays : passTime(d)
  \/ paceReturn
  \/ paceContinue
  \/ paceTimeout

SpecPace == InitPace /\ [][NextPace]_vars

\* discover and continue with a schema that bounds lastModified, next to one writer
NextBounded ==
  \/ \E p \in Procs : return(p)
  \/ readerReturn
  \/ ~Pending /\ \E p \in Writers, partial \in PostPartials, session \in StreamWriters, id \in Ids :
       postClock(p, partial, session, id)
  \/ ~Pending /\ \E p \in Writers : postPut(p)
  \/ ~Pending /\ \E p \in Writers, url \in MintedUrls, session \in StreamWriters :
       deleteGet(p, url, session)
  \/ ~Pending /\ \E p \in Writers : deleteClock(p)
  \/ ~Pending /\ \E p \in Writers : deletePut(p)
  \/ ~Pending /\ \E channels \in DiscoverChannels, session \in Viewers :
       discover(channels, BoundedSchema, session)
  \/ ~Pending /\ discoverScan
  \/ ~Pending /\ reader.pc = "held" /\ continue(reader.session)

SpecBounded == Init /\ [][NextBounded]_vars

(***************************************************************************)
(* The url codec on its own: encodeObjectUrl of an actor and an id         *)
(* followed by decodeObjectUrl, and decodeObjectUrl of a url given from    *)
(* outside.                                                                *)
(***************************************************************************)
\* the strings of at most n characters
RECURSIVE StringsUpTo(_, _)
StringsUpTo(chars, n) ==
  IF n = 0 THEN {<<>>}
  ELSE LET shorter == StringsUpTo(chars, n - 1)
       IN  shorter \cup {<<c>> \o s : c \in chars, s \in {t \in shorter : Len(t) = n - 1}}

CodecChars == {"a", "!", "~", "/", "%", ":"}
CodecStrings == StringsUpTo(CodecChars, CodecMaxLen)

\* urls handed to decodeObjectUrl: with the scheme prefix, with another one, with none
GivenUrls ==
  LET remainders == StringsUpTo({"a", ":", "~"}, CodecMaxLen)
  IN  remainders \cup {<<prefix>> \o r : prefix \in {OBJECT_URL_PREFIX, "graffiti:object:"},
                                          r \in remainders}

InitCodec ==
  /\ db = <<>>
  /\ seq = 1
  /\ ops = [p \in Procs |-> Idle]
  /\ reader = Idle
  /\ posted = <<>>
  /\ wrote = <<>>
  /\ deleted = {}
  /\ pace = FirstStream(NoOptions)
  /\ codec \in {[NoCodec EXCEPT !.pc = "arguments", !.actor = actor, !.id = id] :
                  actor \in CodecStrings, id \in CodecStrings}
               \cup {[NoCodec EXCEPT !.pc = "url", !.url = url] : url \in GivenUrls}
  /\ databaseClosed
  /\ managerClosed

codecEncode ==
  /\ codec.pc = "arguments"
  /\ codec' = [codec EXCEPT !.pc = "url", !.url = encodeObjectUrl(codec.actor, codec.id)]
  /\ UNCHANGED <<db, seq, ops, reader, posted, wrote, deleted, pace, databaseVars, keys, managerVars>>

codecDecode ==
  /\ codec.pc = "url"
  /\ codec' = [codec EXCEPT !.pc = "decoded", !.decoded = decodeObjectUrl(codec.url)]
  /\ UNCHANGED <<db, seq, ops, reader, posted, wrote, deleted, pace, databaseVars, keys, managerVars>>

NextCodec ==
  \/ codecEncode
  \/ codecDecode

SpecCodec == InitCodec /\ [][NextCodec]_vars


(***************************************************************************)
(* GraffitiLocalDatabase (database.ts): put keeps every version of an      *)
(* object as a document of its own, _id = uri + "/" + randomBase64(), and  *)
(* marks the superseded ones as tombstones afterwards.                     *)
(***************************************************************************)
DatabaseUris == {<<"x">>, <<"y">>}

\* what randomBase64 may return for a document
DocNames == {<<"a">>, <<"b">>, <<"c">>}

docId(uri, name) == uri \o <<"/">> \o name

\* allDocs({startkey: uri + "/", endkey: uri + "/\uffff", include_docs: true})
allDocsAtLocation(store, uri) ==
  {[id |-> id, doc |-> store[id]] :
     id \in {i \in DOMAIN store : /\ stringLeq(uri \o <<"/">>, i)
                                  /\ stringLeq(i, uri \o <<"/", "uffff">>)}}

\* a > b on strings
stringGreater(a, b) == a # b /\ stringLeq(b, a)

\* a variant that spares the lowest _id among the documents of the latest timestamp
keepDocIdLowest(concurrentDocsAll) ==
  CHOOSE id \in {d.id : d \in concurrentDocsAll} :
    \A d \in concurrentDocsAll : d.id = id \/ stringGreater(d.id, id)

\* .map((doc) => doc._id).reduce((a, b) => (a > b ? a : b))
keepDocId(concurrentDocsAll) ==
  CHOOSE id \in {d.id : d \in concurrentDocsAll} :
    \A d \in concurrentDocsAll : d.id = id \/ stringGreater(id, d.id)

\* the documents deleteAtLocation marks, of the live ones it has read
docsToDelete(docsAtLocation, keepLatest) ==
  IF docsAtLocation = {} THEN {}
  ELSE LET latestModified ==
             CHOOSE m \in {d.doc.lastModified : d \in docsAtLocation} :
               \A d \in docsAtLocation : d.doc.lastModified <= m
           old == {d \in docsAtLocation : ~keepLatest \/ d.doc.lastModified < latestModified}
           concurrentDocsAll ==
             {d \in docsAtLocation : keepLatest /\ d.doc.lastModified = latestModified}
       IN  old \cup (IF concurrentDocsAll = {} THEN {}
                     ELSE {d \in concurrentDocsAll : d.id # keepDocId(concurrentDocsAll)})

\* the timestamp deleteAtLocation writes into the tombstones
tombstoneLastModified(docsAtLocation, keepLatest, time) ==
  IF keepLatest
  THEN CHOOSE m \in {d.doc.lastModified : d \in docsAtLocation} :
         \A d \in docsAtLocation : d.doc.lastModified <= m
  ELSE time

\* bulkDocs: each document is written unless its _rev is no longer the current one
bulkDocs(store, updates) ==
  [id \in DOMAIN store |->
     IF \E u \in updates : u.id = id /\ u.doc.rev = store[id].rev
     THEN LET u == CHOOSE u \in updates : u.id = id
          IN  [u.doc EXCEPT !.rev = @ + 1]
     ELSE store[id]]

\* the ids bulkDocs reports as written
bulkDocsOk(store, updates) ==
  {u.id : u \in {v \in updates : v.doc.rev = store[v.id].rev}}

FreeCall(p) == calls[p] = Idle /\ \A q \in Procs : q < p => calls[q] # Idle

\* put of an object at a uri of the session's actor, up to the first await:
\* const lastModified = new Date().getTime()
putStart(p, uri) ==
  /\ FreeCall(p)
  /\ Cardinality(DOMAIN docs) + Cardinality({q \in Procs : calls[q].pc = "put"}) < MaxDocs
  /\ calls' = [calls EXCEPT ![p] =
       [kind |-> "put", pc |-> "put", uri |-> uri, lastModified |-> now]]
  /\ UNCHANGED <<docs, now, suffixes>>
  /\ UNCHANGED <<db, seq, ops, reader, posted, wrote, deleted, pace, codec, keys, managerVars>>

\* db.put({_id: this.docId(object), ...object}); written keeps the timestamp of the version
putDoc(p, name) ==
  /\ calls[p].kind = "put" /\ calls[p].pc = "put"
  /\ docId(calls[p].uri, name) \notin DOMAIN docs
  /\ LET id == docId(calls[p].uri, name)
         doc == [uri |-> calls[p].uri, lastModified |-> calls[p].lastModified,
                 tombstone |-> FALSE, rev |-> 1, written |-> calls[p].lastModified]
     IN  /\ docs' = [i \in DOMAIN docs \cup {id} |-> IF i = id THEN doc ELSE docs[i]]
         /\ calls' = [calls EXCEPT ![p] = [@ EXCEPT !.pc = "allDocs"] @@ [id |-> id]]
  /\ UNCHANGED <<now, suffixes>>
  /\ UNCHANGED <<db, seq, ops, reader, posted, wrote, deleted, pace, codec, keys, managerVars>>

\* deleteAtLocation(object, true) up to bulkDocs: the live documents read and chosen
putAllDocs(p) ==
  /\ calls[p].kind = "put" /\ calls[p].pc = "allDocs"
  /\ LET docsAtLocationAll == allDocsAtLocation(docs, calls[p].uri)
         docsAtLocation == {d \in docsAtLocationAll : ~d.doc.tombstone}
     IN  calls' = [calls EXCEPT ![p] =
           IF docsAtLocation = {}
           THEN [@ EXCEPT !.pc = "done"] @@ [result |-> "ok", previous |-> {}]
           ELSE [@ EXCEPT !.pc = "bulkDocs"] @@
                [updates |->
                   {[id |-> d.id,
                     doc |-> [d.doc EXCEPT !.tombstone = TRUE,
                                !.lastModified =
                                  tombstoneLastModified(docsAtLocation, TRUE, now)]] :
                      d \in docsToDelete(docsAtLocation, TRUE)}]]
  /\ UNCHANGED <<docs, now, suffixes>>
  /\ UNCHANGED <<db, seq, ops, reader, posted, wrote, deleted, pace, codec, keys, managerVars>>

\* bulkDocs and the return: a document that was deleted, or the empty tombstone
putBulkDocs(p) ==
  /\ calls[p].kind = "put" /\ calls[p].pc = "bulkDocs"
  /\ docs' = bulkDocs(docs, calls[p].updates)
  /\ calls' = [calls EXCEPT ![p] =
       [kind |-> "put", pc |-> "done", uri |-> calls[p].uri, id |-> calls[p].id,
        lastModified |-> calls[p].lastModified, result |-> "ok",
        previous |-> bulkDocsOk(docs, calls[p].updates)]]
  /\ UNCHANGED <<now, suffixes>>
  /\ UNCHANGED <<db, seq, ops, reader, posted, wrote, deleted, pace, codec, keys, managerVars>>

\* the caller takes the result
putReturn(p) ==
  /\ calls[p].pc = "done"
  /\ calls' = [calls EXCEPT ![p] = Idle]
  /\ UNCHANGED <<docs, now, suffixes>>
  /\ UNCHANGED <<db, seq, ops, reader, posted, wrote, deleted, pace, codec, keys, managerVars>>

\* a millisecond goes by
tick ==
  /\ now < MaxNow
  /\ now' = now + 1
  /\ UNCHANGED <<docs, calls, suffixes>>
  /\ UNCHANGED <<db, seq, ops, reader, posted, wrote, deleted, pace, codec, keys, managerVars>>

NextDatabase ==
  \/ \E p \in Procs, uri \in DatabaseUris : putStart(p, uri)
  \/ \E p \in Procs, name \in DocNames : putDoc(p, name)
  \/ \E p \in Procs : putAllDocs(p)
  \/ \E p \in Procs : putBulkDocs(p)
  \/ \E p \in Procs : putReturn(p)
  \/ tick

SpecDatabase == Init /\ [][NextDatabase]_vars


(***************************************************************************)
(* GraffitiLocalDatabase.queryLastModifiedSuffixes (database.ts): the      *)
(* range of the index taken from a schema's bounds on lastModified.  A     *)
(* number is kept as its count of halves, so that 3 stands for 1.5.        *)
(***************************************************************************)
\* Math.floor and Math.ceil, on halves
MathFloor(x) == (x \div 2) * 2
\* a variant that rounds down
MathCeilRoundingDown(x) == (x \div 2) * 2
MathCeil(x) == ((x + 1) \div 2) * 2

\* Number.prototype.toString() of a non-negative whole number, given in halves
wholeToString(x) == numberToString(x \div 2)

\* a keyword that is not given (undefined), and one that is
NoNumber == [present |-> FALSE, value |-> 0]
NumberOf(x) == [present |-> TRUE, value |-> x]

\* the positive bounds of the model: 0.5, 1, 1.5, ...
SchemaNumbers == {NoNumber} \cup {NumberOf(x) : x \in 1..MaxHalves}

\* schemas: true, one without properties.lastModified, and those that bound it
RangeSchemas ==
  {[kind |-> "boolean"], [kind |-> "object", bounded |-> FALSE]}
  \cup {[kind |-> "object", bounded |-> TRUE, minimum |-> minimum,
         exclusiveMinimum |-> exclusiveMinimum, maximum |-> maximum,
         exclusiveMaximum |-> exclusiveMaximum] :
          minimum \in SchemaNumbers, exclusiveMinimum \in SchemaNumbers,
          maximum \in SchemaNumbers, exclusiveMaximum \in SchemaNumbers}

queryLastModifiedSuffixes(schema) ==
  IF schema.kind = "object" /\ schema.bounded
  THEN LET intMinimum ==
             IF schema.exclusiveMinimum.present
             THEN LET ceiling == MathCeil(schema.exclusiveMinimum.value)
                  IN  NumberOf(IF ceiling = schema.exclusiveMinimum.value
                               THEN ceiling + 2 ELSE ceiling)
             ELSE IF schema.minimum.present THEN NumberOf(MathCeil(schema.minimum.value))
             ELSE NoNumber
           intMaximum ==
             IF schema.exclusiveMaximum.present
             THEN LET floor == MathFloor(schema.exclusiveMaximum.value)
                  IN  NumberOf(IF floor = schema.exclusiveMaximum.value
                               THEN floor - 2 ELSE floor)
             ELSE IF schema.maximum.present THEN NumberOf(MathFloor(schema.maximum.value))
             ELSE NoNumber
       IN  [startKeySuffix |-> IF intMinimum.present
                               THEN padStart(wholeToString(intMinimum.value), 15)
                               ELSE <<>>,
            endKeySuffix |-> IF intMaximum.present
                             THEN padStart(wholeToString(intMaximum.value), 15)
                             ELSE <<"uffff">>]
  ELSE [startKeySuffix |-> <<>>, endKeySuffix |-> <<"uffff">>]

InitSuffixes ==
  /\ db = <<>>
  /\ seq = 1
  /\ ops = [p \in Procs |-> Idle]
  /\ reader = Idle
  /\ posted = <<>>
  /\ wrote = <<>>
  /\ deleted = {}
  /\ pace = FirstStream(NoOptions)
  /\ codec = NoCodec
  /\ managerClosed
  /\ docs = <<>>
  /\ now = 0
  /\ calls = [p \in Procs |-> Idle]
  /\ suffixes \in {[pc |-> "schema", schema |-> schema] : schema \in RangeSchemas}

querySuffixes ==
  /\ suffixes.pc = "schema"
  /\ suffixes' = [pc |-> "done", schema |-> suffixes.schema,
                  result |-> queryLastModifiedSuffixes(suffixes.schema)]
  /\ UNCHANGED <<docs, now, calls>>
  /\ UNCHANGED <<db, seq, ops, reader, posted, wrote, deleted, pace, codec, keys, managerVars>>

NextSuffixes == querySuffixes

SpecSuffixes == InitSuffixes /\ [][NextSuffixes]_vars


(***************************************************************************)
(* The keys of the view on their own: two timestamps are padded and        *)
(* compared as strings, and the view of a store that holds one object per  *)
(* timestamp is queried between the two keys of a channel.                 *)
(***************************************************************************)
\* timestamps on both sides of every change in the number of digits
PadNumbers == {0, 1, 2, 9, 10, 11, 99, 100, 1000, 2147483647}

PadUrl(n) == <<"u">> \o numberToString(n)

\* a store with one object per timestamp, all in c1, every other one in c2 as well
PadStore ==
  [u \in {PadUrl(n) : n \in PadNumbers} |->
     LET n == CHOOSE m \in PadNumbers : PadUrl(m) = u
     IN  [tombstone |-> FALSE, value |-> "v1",
          channels |-> IF n % 2 = 0 THEN <<c1, c2>> ELSE <<c1>>,
          allowed |-> NoAllowed, lastModified |-> n, rev |-> 1]]

InitKeys ==
  /\ db = PadStore
  /\ seq = 1 + Cardinality(PadNumbers)
  /\ ops = [p \in Procs |-> Idle]
  /\ reader = Idle
  /\ posted = <<>>
  /\ wrote = <<>>
  /\ deleted = {}
  /\ pace = FirstStream(NoOptions)
  /\ codec = NoCodec
  /\ databaseClosed
  /\ loggedInActors = <<>>
  /\ loggedInHandles = <<>>
  /\ window = FALSE
  /\ localStorage = NoItem
  /\ managerCall = NoCall
  /\ dispatched = <<>>
  /\ keys \in {[pc |-> "numbers", channel |-> channel, lo |-> lo, hi |-> hi] :
                 channel \in {c1, c2, c3}, lo \in PadNumbers, hi \in PadNumbers}

\* the comparison of the two padded timestamps, the query between the two keys of the
\* channel, and the query discoverMeta makes from the lower one
compareKeys ==
  /\ keys.pc = "numbers"
  /\ LET keyPrefix == encodeURIComponent(keys.channel) \o <<"/">>
     IN  keys' = [keys EXCEPT !.pc = "done"] @@
           [leq |-> stringLeq(paddedLastModified(keys.lo), paddedLastModified(keys.hi)),
            between |-> query(db, viewKey(keys.channel, keys.lo),
                              viewKey(keys.channel, keys.hi)),
            since |-> query(db, keyPrefix \o startKeySuffix(TRUE, keys.lo),
                            keyPrefix \o endKeySuffix)]
  /\ UNCHANGED <<db, seq, ops, reader, posted, wrote, deleted, pace, codec, databaseVars,
                 managerVars>>

NextKeys == compareKeys

SpecKeys == InitKeys /\ [][NextKeys]_vars

(***************************************************************************)
(* The calls on a database that has never been opened: the instance is     *)
(* constructed without a database, which the first call that uses it       *)
(* creates.                                                                *)
(***************************************************************************)
\* db_ is undefined after the constructor; a new database has update_seq 0
InitFresh ==
  /\ db = <<>>
  /\ seq = 0
  /\ ops = [p \in Procs |-> Idle]
  /\ reader = Idle
  /\ posted = <<>>
  /\ wrote = <<>>
  /\ deleted = {}
  /\ pace = FirstStream(NoOptions)
  /\ codec = NoCodec
  /\ managerClosed
  /\ databaseClosed

NextFresh ==
  \/ \E p \in Procs : return(p)
  \/ readerReturn
  \/ ~Pending /\ \E partial \in PostPartials, session \in StreamWriters, id \in Ids :
       postClock(1, partial, session, id)
  \/ ~Pending /\ postPut(1)
  \/ ~Pending /\ \E url \in MintedUrls \cup {BadUrl}, session \in Sessions :
       deleteGet(1, url, session)
  \/ ~Pending /\ deleteClock(1)
  \/ ~Pending /\ deletePut(1)
  \/ ~Pending /\ \E url \in MintedUrls, schema \in Schemas, session \in Viewers :
       get(url, schema, session)
  \/ ~Pending /\ \E channels \in DiscoverChannels, schema \in DiscoverSchemas, session \in Viewers :
       discover(channels, schema, session)
  \/ ~Pending /\ discoverScan
  \/ ~Pending /\ \E session \in Viewers : continue(session)
  \/ ~Pending /\ \E session \in Viewers : continueDiscover(session)

SpecFresh == InitFresh /\ [][NextFresh]_vars

(***************************************************************************)
(* GraffitiLocalSessionManager.  The list of the logged-in actors is an    *)
(* array of the instance under node and an item of window.localStorage in  *)
(* the browser.  Two versions are modelled: the one that keeps actors, and *)
(* the one of session-manager.ts that keeps handles and derives the actor  *)
(* of a handle.                                                            *)
(***************************************************************************)
\* the list of logged-in actors is not grown beyond this length
MaxActors == 3
\* no more events than this are dispatched on one page
MaxEvents == 4

\* an argument that is undefined, or a prompt that returns null
NoString == [present |-> FALSE, value |-> <<>>]
StringOf(string) == [present |-> TRUE, value |-> string]

\* Array.prototype.join(",")
RECURSIVE join(_)
join(list) ==
  IF list = <<>> THEN <<>>
  ELSE IF Len(list) = 1 THEN list[1]
  ELSE list[1] \o <<",">> \o join(Tail(list))

\* String.prototype.split(",") on a sequence of characters
RECURSIVE splitCommas(_)
splitCommas(s) ==
  IF s = <<>> THEN << <<>> >>
  ELSE LET rest == splitCommas(Tail(s))
       IN  IF Head(s) = "," THEN << <<>> >> \o rest
           ELSE << <<Head(s)>> \o rest[1] >> \o Tail(rest)

\* list.map(decodeURIComponent): [ok, value]; ok = FALSE stands for the URIError
RECURSIVE mapDecodeURIComponent(_)
mapDecodeURIComponent(list) ==
  IF list = <<>> THEN [ok |-> TRUE, value |-> <<>>]
  ELSE LET first == decodeURIComponent(Head(list))
           rest == mapDecodeURIComponent(Tail(list))
       IN  IF first.ok /\ rest.ok THEN [ok |-> TRUE, value |-> <<first.value>> \o rest.value]
           ELSE [ok |-> FALSE, value |-> <<>>]

\* list.map(encodeURIComponent)
mapEncodeURIComponent(list) == [i \in DOMAIN list |-> encodeURIComponent(list[i])]

\* Array.prototype.filter(entry => entry !== string)
RECURSIVE filterOut(_, _)
filterOut(list, string) ==
  IF list = <<>> THEN <<>>
  ELSE (IF Head(list) # string THEN <<Head(list)>> ELSE <<>>) \o filterOut(Tail(list), string)

\* the events on sessionEvents
loginEvent(actor) == [type |-> "login", actor |-> actor, error |-> FALSE]
loginError == [type |-> "login", actor |-> <<>>, error |-> TRUE]
initialized == [type |-> "initialized", actor |-> <<>>, error |-> FALSE]
logoutEvent(actor, error) == [type |-> "logout", actor |-> actor, error |-> error]

(***************************************************************************)
(* The version that keeps actors.                                          *)
(***************************************************************************)
\* what the item "graffiti-actor" reads as
parseActors(item) ==
  IF item.present /\ item.value # <<>>
  THEN mapDecodeURIComponent(splitCommas(item.value))
  ELSE [ok |-> TRUE, value |-> <<>>]

getLoggedInActors ==
  IF window THEN parseActors(localStorage) ELSE [ok |-> TRUE, value |-> loggedInActors]

\* a variant that writes the actors to the item as they are
storedActorsPlain(actors) == ItemOf(join(actors))

\* the item setLoggedInActors writes
storedActors(actors) == ItemOf(join(mapEncodeURIComponent(actors)))

setLoggedInActors(actors) ==
  IF window
  THEN localStorage' = storedActors(actors) /\ UNCHANGED loggedInActors
  ELSE loggedInActors' = actors /\ UNCHANGED localStorage

\* the constructor of the page after the reload: a login event for each actor
sessionRestorer(list) ==
  IF ~list.ok THEN <<>>
  ELSE [i \in DOMAIN list.value |-> loginEvent(list.value[i])] \o <<initialized>>

\* login(actor); response is what window.prompt returns in the browser
login(actor, response) ==
  LET chosen == IF window THEN response ELSE actor
      call == [kind |-> "login", actor |-> chosen.value]
      added == IF chosen.value \in Range(getLoggedInActors.value)
               THEN getLoggedInActors.value
               ELSE Append(getLoggedInActors.value, chosen.value)
  IN  /\ getLoggedInActors.ok => Len(getLoggedInActors.value) < MaxActors
      /\ IF ~chosen.present \/ chosen.value = <<>>
         THEN /\ Len(dispatched) < MaxEvents
              /\ dispatched' = Append(dispatched, loginError)
              /\ managerCall' = call @@ [thrown |-> FALSE]
              /\ UNCHANGED <<loggedInActors, localStorage>>
         ELSE IF ~getLoggedInActors.ok
         THEN /\ managerCall' = call @@ [thrown |-> TRUE]
              /\ UNCHANGED <<loggedInActors, localStorage, dispatched>>
         ELSE /\ setLoggedInActors(added)
              \* window.location.reload(): a new page in the browser, a ReferenceError
              \* under node
              /\ managerCall' = call @@ [thrown |-> ~window]
              /\ dispatched' = IF window THEN sessionRestorer(parseActors(storedActors(added)))
                               ELSE dispatched
      /\ UNCHANGED <<loggedInHandles, window>>
      /\ UNCHANGED <<db, seq, ops, reader, posted, wrote, deleted, pace, codec, databaseVars, keys>>

\* logout(session)
logout(session) ==
  LET existingActors == getLoggedInActors
      call == [kind |-> "logout", actor |-> session.actor]
      exists == session.actor \in Range(existingActors.value)
  IN  /\ Len(dispatched) < MaxEvents
      /\ IF ~existingActors.ok
         THEN /\ managerCall' = call @@ [thrown |-> TRUE]
              /\ UNCHANGED <<loggedInActors, localStorage, dispatched>>
         ELSE /\ IF exists THEN setLoggedInActors(filterOut(existingActors.value, session.actor))
                 ELSE UNCHANGED <<loggedInActors, localStorage>>
              /\ dispatched' = Append(dispatched, logoutEvent(session.actor, ~exists))
              /\ managerCall' = call @@ [thrown |-> FALSE]
      /\ UNCHANGED <<loggedInHandles, window>>
      /\ UNCHANGED <<db, seq, ops, reader, posted, wrote, deleted, pace, codec, databaseVars, keys>>

\* the actors of the model: one holds the separator of the item, one the escape
ManagerActors == {<<"a">>, <<"b">>, <<"a", ",", "a">>, <<"%">>}

\* the state after the constructor and its sessionRestorer, with no item stored
InitManager ==
  /\ db = <<>>
  /\ seq = 1
  /\ ops = [p \in Procs |-> Idle]
  /\ reader = Idle
  /\ posted = <<>>
  /\ wrote = <<>>
  /\ deleted = {}
  /\ pace = FirstStream(NoOptions)
  /\ codec = NoCodec
  /\ databaseClosed
  /\ keys = NoKeys
  /\ loggedInActors = <<>>
  /\ loggedInHandles = <<>>
  /\ window \in BOOLEAN
  /\ localStorage = NoItem
  /\ managerCall = NoCall
  /\ dispatched = <<initialized>>

NextManager ==
  \/ \E actor \in {StringOf(a) : a \in ManagerActors \cup {<<>>}} \cup {NoString} :
       login(actor, actor)
  \/ \E actor \in ManagerActors \cup {<<>>} : logout(SessionOf(actor))

SpecManager == InitManager /\ [][NextManager]_vars

(***************************************************************************)
(* The version of session-manager.ts, which keeps the handles of the       *)
(* actors: the actor of a handle is "did:local:" and the url-safe base64   *)
(* of the handle.                                                          *)
(***************************************************************************)
DID_LOCAL_PREFIX == "did:local:"

Base64Alphabet ==
  <<"A", "B", "C", "D", "E", "F", "G", "H", "I", "J", "K", "L", "M", "N", "O", "P", "Q",
    "R", "S", "T", "U", "V", "W", "X", "Y", "Z", "a", "b", "c", "d", "e", "f", "g", "h",
    "i", "j", "k", "l", "m", "n", "o", "p", "q", "r", "s", "t", "u", "v", "w", "x", "y",
    "z", "0", "1", "2", "3", "4", "5", "6", "7", "8", "9", "+", "/">>

Base64Char(n) == Base64Alphabet[n + 1]
Base64Value(c) == (CHOOSE i \in DOMAIN Base64Alphabet : Base64Alphabet[i] = c) - 1

\* btoa(String.fromCodePoint(...bytes))
RECURSIVE btoa(_)
btoa(bytes) ==
  IF bytes = <<>> THEN <<>>
  ELSE IF Len(bytes) = 1
    THEN <<Base64Char(bytes[1] \div 4), Base64Char((bytes[1] % 4) * 16), "=", "=">>
  ELSE IF Len(bytes) = 2
    THEN <<Base64Char(bytes[1] \div 4),
           Base64Char((bytes[1] % 4) * 16 + bytes[2] \div 16),
           Base64Char((bytes[2] % 16) * 4), "=">>
  ELSE <<Base64Char(bytes[1] \div 4),
         Base64Char((bytes[1] % 4) * 16 + bytes[2] \div 16),
         Base64Char((bytes[2] % 16) * 4 + bytes[3] \div 64),
         Base64Char(bytes[3] % 64)>> \o btoa(SubSeq(bytes, 4, Len(bytes)))

\* String.prototype.replace(/\=+$/, "")
RECURSIVE stripPadding(_)
stripPadding(s) ==
  IF s # <<>> /\ s[Len(s)] = "=" THEN stripPadding(SubSeq(s, 1, Len(s) - 1)) ELSE s

encodeBase64(bytes) ==
  stripPadding(replaceAll(replaceAll(btoa(bytes), "+", "-"), "/", "_"))

\* while (base64.length % 4 !== 0) base64 += "="
RECURSIVE addPadding(_)
addPadding(s) == IF Len(s) % 4 # 0 THEN addPadding(s \o <<"=">>) ELSE s

\* the bytes of the groups of four characters, the last group may be shorter
RECURSIVE atobGroups(_)
atobGroups(data) ==
  IF Len(data) < 2 THEN <<>>
  ELSE LET v(i) == Base64Value(data[i])
       IN  IF Len(data) = 2 THEN <<v(1) * 4 + v(2) \div 16>>
           ELSE IF Len(data) = 3
             THEN <<v(1) * 4 + v(2) \div 16, (v(2) % 16) * 16 + v(3) \div 4>>
           ELSE <<v(1) * 4 + v(2) \div 16, (v(2) % 16) * 16 + v(3) \div 4,
                  (v(3) % 4) * 64 + v(4)>> \o atobGroups(SubSeq(data, 5, Len(data)))

\* atob: [ok, bytes]; ok = FALSE stands for the InvalidCharacterError
atob(s) ==
  LET data == IF Len(s) % 4 = 0 /\ s # <<>> /\ s[Len(s)] = "="
              THEN IF s[Len(s) - 1] = "=" THEN SubSeq(s, 1, Len(s) - 2)
                   ELSE SubSeq(s, 1, Len(s) - 1)
              ELSE s
  IN  IF Len(data) % 4 = 1 \/ \E i \in DOMAIN data : data[i] \notin Range(Base64Alphabet)
      THEN [ok |-> FALSE, bytes |-> <<>>]
      ELSE [ok |-> TRUE, bytes |-> atobGroups(data)]

decodeBase64(base64Url) ==
  atob(addPadding(replaceAll(replaceAll(base64Url, "-", "+"), "_", "/")))

\* the characters of the handles of the model
HandleAlphabet == {"a", "b", ",", "%"}

\* new TextEncoder().encode(handle), for the characters of the model
TextEncoderEncode(handle) == [i \in DOMAIN handle |-> CharCode(handle[i])]

\* new TextDecoder().decode(bytes); any other byte is shown as "?"
TextDecoderDecode(bytes) ==
  [i \in DOMAIN bytes |->
     IF \E c \in HandleAlphabet : CharCode(c) = bytes[i]
     THEN CHOOSE c \in HandleAlphabet : CharCode(c) = bytes[i]
     ELSE "?"]

handleToActor(handle) == <<DID_LOCAL_PREFIX>> \o encodeBase64(TextEncoderEncode(handle))

\* [ok, value]; ok = FALSE stands for the error thrown
actorToHandle(actor) ==
  IF actor = <<>> \/ Head(actor) # DID_LOCAL_PREFIX THEN [ok |-> FALSE, value |-> <<>>]
  ELSE LET decoded == decodeBase64(Tail(actor))
       IN  IF ~decoded.ok THEN [ok |-> FALSE, value |-> <<>>]
           ELSE [ok |-> TRUE, value |-> TextDecoderDecode(decoded.bytes)]

\* what the item "graffiti-handles" reads as
parseHandles(item) ==
  IF item.present /\ item.value # <<>>
  THEN mapDecodeURIComponent(splitCommas(item.value))
  ELSE [ok |-> TRUE, value |-> <<>>]

getLoggedInHandles ==
  IF window THEN parseHandles(localStorage) ELSE [ok |-> TRUE, value |-> loggedInHandles]

\* the item setLoggedInHandles writes: handles.join(",")
storedHandles(handles) == ItemOf(join(handles))

setLoggedInHandles(handles) ==
  IF window
  THEN localStorage' = storedHandles(handles) /\ UNCHANGED loggedInHandles
  ELSE loggedInHandles' = handles /\ UNCHANGED localStorage

\* the constructor of the page after the reload: a login event for each handle
sessionRestorerOfHandles(list) ==
  IF ~list.ok THEN <<>>
  ELSE [i \in DOMAIN list.value |-> loginEvent(handleToActor(list.value[i]))]
       \o <<initialized>>

\* login(actor) of session-manager.ts; response is what window.prompt returns
loginHandle(actor, response) ==
  LET proposed == IF actor.present /\ actor.value # <<>> THEN actorToHandle(actor.value)
                  ELSE [ok |-> TRUE, value |-> <<>>]
      handle == IF window THEN response
                ELSE IF actor.present /\ actor.value # <<>> THEN StringOf(proposed.value)
                ELSE NoString
      call == [kind |-> "login", actor |-> actor.value]
      existingHandles == getLoggedInHandles
      added == IF handle.value \in Range(existingHandles.value) THEN existingHandles.value
               ELSE Append(existingHandles.value, handle.value)
  IN  /\ existingHandles.ok => Len(existingHandles.value) < MaxActors
      /\ IF ~proposed.ok
         THEN /\ managerCall' = call @@ [thrown |-> TRUE]
              /\ UNCHANGED <<loggedInHandles, localStorage, dispatched>>
         ELSE IF ~handle.present \/ handle.value = <<>>
         THEN /\ Len(dispatched) < MaxEvents
              /\ dispatched' = Append(dispatched, loginError)
              /\ managerCall' = call @@ [thrown |-> FALSE]
              /\ UNCHANGED <<loggedInHandles, localStorage>>
         ELSE IF ~existingHandles.ok
         THEN /\ managerCall' = call @@ [thrown |-> TRUE]
              /\ UNCHANGED <<loggedInHandles, localStorage, dispatched>>
         ELSE /\ setLoggedInHandles(added)
              /\ managerCall' = call @@ [thrown |-> ~window]
              /\ dispatched' =
                   IF window THEN sessionRestorerOfHandles(parseHandles(storedHandles(added)))
                   ELSE dispatched
      /\ UNCHANGED <<loggedInActors, window>>
      /\ UNCHANGED <<db, seq, ops, reader, posted, wrote, deleted, pace, codec, databaseVars, keys>>

\* logout(session) of session-manager.ts
logoutHandle(session) ==
  LET handle == actorToHandle(session.actor)
      existingHandles == getLoggedInHandles
      call == [kind |-> "logout", actor |-> session.actor]
      exists == handle.value \in Range(existingHandles.value)
  IN  /\ Len(dispatched) < MaxEvents
      /\ IF ~handle.ok \/ ~existingHandles.ok
         THEN /\ managerCall' = call @@ [thrown |-> TRUE]
              /\ UNCHANGED <<loggedInHandles, localStorage, dispatched>>
         ELSE /\ IF exists THEN setLoggedInHandles(filterOut(existingHandles.value, handle.value))
                 ELSE UNCHANGED <<loggedInHandles, localStorage>>
              /\ dispatched' = Append(dispatched, logoutEvent(session.actor, ~exists))
              /\ managerCall' = call @@ [thrown |-> FALSE]
      /\ UNCHANGED <<loggedInActors, window>>
      /\ UNCHANGED <<db, seq, ops, reader, posted, wrote, deleted, pace, codec, databaseVars, keys>>

\* the handles of the model: one holds the separator of the item, one the escape
ManagerHandles == {<<"a">>, <<"b">>, <<"a", ",", "a">>, <<"%">>}

\* the actors handed to login and logout: the ones of the handles, and one that is
\* not of this implementation
HandleActors == {handleToActor(h) : h \in ManagerHandles} \cup {<<"a">>}

NextHandles ==
  \/ \E actor \in {StringOf(a) : a \in HandleActors} \cup {NoString},
        response \in {StringOf(h) : h \in ManagerHandles \cup {<<>>}} \cup {NoString} :
       /\ ~window => response = NoString
       /\ window => actor = NoString
       /\ loginHandle(actor, response)
  \/ \E actor \in HandleActors : logoutHandle(SessionOf(actor))

SpecHandles == InitManager /\ [][NextHandles]_vars


(***************************************************************************)
(* Properties.                                                             *)
(***************************************************************************)
\* a get has returned or thrown and its caller has not yet taken the result
GetDone == reader.kind = "get" /\ reader.pc = "done"

\* the owner of a record is the actor its url decodes to
OwnerOf(url) == decodeObjectUrl(url).actor

\* the viewer is not the owner of the object returned to it
NotOwner(v, object) == ~v.present \/ v.actor # object.actor

\* the record at url is visible to viewer v: no allowed list, or v is the owner or listed
Permitted(store, url, v) ==
  \/ ~store[url].allowed.present
  \/ /\ v.present
     /\ \/ v.actor = OwnerOf(url)
        \/ v.actor \in Range(store[url].allowed.list)

\* C1: a get of the url a post returned, by the session that posted, succeeds with
\* the object the post returned (url, actor, value, channels, allowed), as long as
\* no delete of the url has succeeded.
C1_GetReturnsPosted ==
  (/\ GetDone
   /\ reader.url \in DOMAIN posted
   /\ reader.url \notin deleted
   /\ reader.session = posted[reader.url].session
   /\ reader.schema = "empty")
  => reader.result = Success(posted[reader.url].object)

\* C2: once a delete of a url has succeeded, every get of the url fails with
\* NotFound, for every viewer and in every later state.
C2_DeletedStaysNotFound ==
  /\ (GetDone /\ reader.url \in deleted) => reader.result = Failure("NotFound")
  /\ \A u \in deleted, v \in Viewers, schema \in Schemas :
       getResult(db, u, schema, v) = Failure("NotFound")

\* the owner's get of a url whose delete has succeeded has failed with NotFound
C2_Witness ==
  /\ GetDone
  /\ reader.url \in deleted
  /\ reader.session.present /\ reader.session.actor = OwnerOf(reader.url)
  /\ reader.result = Failure("NotFound")

\* C3: a record changes only from live to tombstoned; no step removes a record or
\* makes a tombstone live again, and a post that succeeds creates a live record at
\* a url that held no record.
C3_OnlyLiveToTombstoned ==
  [][/\ \A u \in DOMAIN db :
          /\ u \in DOMAIN db'
          /\ db[u].tombstone => db'[u].tombstone
          /\ db'[u] # db[u] => ~db[u].tombstone /\ db'[u].tombstone
     /\ \A u \in DOMAIN db' \ DOMAIN db : ~db'[u].tombstone
     /\ \A p \in Procs :
          (/\ ops[p].kind = "post" /\ ops[p].pc = "put"
           /\ ops'[p].pc = "done" /\ ops'[p].result.status = "ok")
          => /\ ops[p].url \notin DOMAIN db
             /\ ops[p].url \in DOMAIN db'
             /\ ~db'[ops[p].url].tombstone]_vars

\* a post to the url of a tombstone has failed and the tombstone is still there
C3_Witness ==
  \E p \in Procs :
    /\ ops[p].kind = "post" /\ ops[p].pc = "done"
    /\ ops[p].result.status # "ok"
    /\ ops[p].url \in deleted
    /\ db[ops[p].url].tombstone

\* C4: a delete by a session whose actor is not the actor the url decodes to fails
\* with Forbidden, whether or not a record exists, and writes nothing.
C4_ForeignDeleteForbidden ==
  [][\A p \in Procs :
       (/\ ops'[p] # ops[p]
        /\ ops'[p].kind = "delete"
        /\ decodeObjectUrl(ops'[p].url).ok
        /\ OwnerOf(ops'[p].url) # ops'[p].session.actor)
       => /\ ops'[p].pc = "done"
          /\ ops'[p].result = Failure("Forbidden")
          /\ db' = db
          /\ seq' = seq]_vars

\* a delete of a live record that its caller cannot see has failed with Forbidden
C4_Witness ==
  \E p \in Procs :
    /\ ops[p].kind = "delete" /\ ops[p].pc = "done"
    /\ ops[p].result = Failure("Forbidden")
    /\ ops[p].url \in DOMAIN db
    /\ ~db[ops[p].url].tombstone
    /\ ~Permitted(db, ops[p].url, ops[p].session)

\* C5: a delete by the owner fails with NotFound when the url has no record or a
\* tombstone, also when the tombstone was written while the delete was in flight;
\* it writes nothing, and the lastModified of a tombstone never changes.
C5_RepeatedDeleteNotFound ==
  [][/\ \A p \in Procs :
          (/\ ops[p] = Idle
           /\ ops'[p].kind = "delete"
           /\ decodeObjectUrl(ops'[p].url).ok
           /\ OwnerOf(ops'[p].url) = ops'[p].session.actor
           /\ ops'[p].url \in DOMAIN db => db[ops'[p].url].tombstone)
          => /\ ops'[p].pc = "done"
             /\ ops'[p].result = Failure("NotFound")
             /\ db' = db
             /\ seq' = seq
     /\ \A p \in Procs :
          (/\ ops[p].kind = "delete" /\ ops[p].pc = "put"
           /\ ops'[p] # ops[p]
           /\ db[ops[p].url].tombstone)
          => /\ ops'[p].result = Failure("NotFound")
             /\ db' = db
             /\ seq' = seq
     /\ \A u \in DOMAIN db :
          db[u].tombstone => u \in DOMAIN db' /\ db'[u].lastModified = db[u].lastModified]_vars

\* the owner's delete of a url whose delete has succeeded has failed with NotFound
C5_Witness ==
  \E p \in Procs :
    /\ ops[p].kind = "delete" /\ ops[p].pc = "done"
    /\ ops[p].url \in deleted
    /\ ops[p].session.actor = OwnerOf(ops[p].url)
    /\ ops[p].result = Failure("NotFound")

\* C6: a get of a live record succeeds only if the record has no allowed list, or
\* the viewer has an actor that is the owner or is listed; for every other viewer,
\* an absent session included, it fails with NotFound.
C6_GetOnlyIfPermitted ==
  (GetDone /\ reader.url \in DOMAIN db /\ ~db[reader.url].tombstone)
  => /\ reader.result.status = "ok" => Permitted(db, reader.url, reader.session)
     /\ ~Permitted(db, reader.url, reader.session) => reader.result = Failure("NotFound")

\* a get without a session of a live record with an allowed list has failed with NotFound
C6_Witness ==
  /\ GetDone
  /\ reader.url \in DOMAIN db /\ ~db[reader.url].tombstone
  /\ db[reader.url].allowed.present
  /\ ~reader.session.present
  /\ reader.result = Failure("NotFound")

\* the store without the record at url u
Without(store, u) == [x \in DOMAIN store \ {u} |-> store[x]]

C8_ChannelsWithinQueried ==
  /\ (GetDone /\ reader.result.status = "ok"
      /\ NotOwner(reader.session, reader.result.object))
     => reader.result.object.channels = <<>>
  /\ reader.kind = "discover"
     => \A i \in DOMAIN reader.events :
          LET e == reader.events[i]
          IN  (~e.tombstone /\ NotOwner(reader.session, e.object))
              => /\ Range(e.object.channels) \subseteq Range(reader.channels)
                 /\ Range(e.object.channels) =
                      Range(db[e.object.url].channels) \cap Range(reader.channels)

\* a stream has yielded to a viewer who is not the owner an object with fewer
\* channels than are stored
C8_Witness ==
  /\ reader.kind = "discover"
  /\ \E i \in DOMAIN reader.events :
       LET e == reader.events[i]
       IN  /\ ~e.tombstone
           /\ NotOwner(reader.session, e.object)
           /\ e.object.channels # <<>>
           /\ Len(e.object.channels) < Len(db[e.object.url].channels)

\* the allowed list of an object returned to viewer v is the stored one masked for v
MaskedAllowed(object, v) ==
  IF db[object.url].allowed.present
  THEN v.present /\ object.allowed = AllowedOf(<<v.actor>>)
  ELSE object.allowed = NoAllowed

\* C9: the allowed list of an object returned to a viewer who is not its owner is
\* absent if the stored one is absent, and otherwise the list of the viewer's
\* actor alone, under get, discover and continue.
C9_AllowedOnlyViewer ==
  /\ (GetDone /\ reader.result.status = "ok"
      /\ NotOwner(reader.session, reader.result.object))
     => MaskedAllowed(reader.result.object, reader.session)
  /\ reader.kind = "discover"
     => \A i \in DOMAIN reader.events :
          LET e == reader.events[i]
          IN  (~e.tombstone /\ NotOwner(reader.session, e.object))
              => MaskedAllowed(e.object, reader.session)

\* a get has returned to a listed viewer who is not the owner an object whose
\* stored allowed list names another actor too
C9_Witness ==
  /\ GetDone /\ reader.result.status = "ok"
  /\ NotOwner(reader.session, reader.result.object)
  /\ Len(db[reader.url].allowed.list) > 1
  /\ reader.result.object.allowed = AllowedOf(<<reader.session.actor>>)

\* C10: every write to a record, the post that creates it or the delete that
\* tombstones it, is made by a session of the actor the record's url decodes to.
C10_OnlyOwnerWrites ==
  \A u \in DOMAIN wrote : \A a \in wrote[u] : a = OwnerOf(u)

\* a stream has ended and its caller has not yet taken the continuation
StreamDone(via) ==
  /\ reader.kind = "discover" /\ reader.pc = "done"
  /\ reader.via = via /\ reader.result.status = "ok"

\* the object of the record at url u, before masking
StoredObject(store, u) ==
  [url |-> u, actor |-> OwnerOf(u), value |-> store[u].value,
   channels |-> store[u].channels, allowed |-> store[u].allowed]

\* the urls of the records in one of the channels
InChannels(store, channels) ==
  {u \in DOMAIN store : Range(store[u].channels) \cap Range(channels) # {}}

\* the objects a discover of the store is to emit
Discoverable(store, channels, schema, v) ==
  {maskGraffitiObject(StoredObject(store, u), channels, v) :
     u \in {x \in InChannels(store, channels) :
              /\ ~store[x].tombstone
              /\ Permitted(store, x, v)
              /\ validate(schema, maskGraffitiObject(StoredObject(store, x), channels, v))}}

\* C11: a discover during whose scan no write was committed has emitted exactly
\* the live objects of the queried channels that are visible to the viewer and
\* whose masked form satisfies the schema, and no tombstone.
C11_DiscoverEmitsExactly ==
  (StreamDone("discover") /\ seq = reader.result.ifModifiedSince)
  => /\ \A i \in DOMAIN reader.events : ~reader.events[i].tombstone
     /\ {reader.events[i].object : i \in DOMAIN reader.events} =
          Discoverable(db, reader.channels, reader.schema, reader.session)

\* a discover has emitted an object and has left out a live record of a queried channel
C11_Witness ==
  /\ StreamDone("discover") /\ seq = reader.result.ifModifiedSince
  /\ reader.events # <<>>
  /\ \E u \in InChannels(db, reader.channels) :
       /\ ~db[u].tombstone
       /\ \A i \in DOMAIN reader.events : reader.events[i].object.url # u

\* C12: within one discover or continue no url is emitted twice, whether the
\* object is in several queried channels, a channel is listed twice, or the
\* object is deleted between the scans of two of its channels.
C12_EachUrlOnce ==
  reader.kind = "discover"
  => \A i, j \in DOMAIN reader.events :
       i # j => reader.events[i].object.url # reader.events[j].object.url

\* a continue over two channels has emitted, once and live, an object of both
\* channels that was deleted before the second channel was scanned
C12_Witness ==
  /\ StreamDone("continue")
  /\ reader.channels = <<c2, c1>>
  /\ \E i \in DOMAIN reader.events :
       LET u == reader.events[i].object.url
       IN  /\ ~reader.events[i].tombstone
           /\ db[u].tombstone
           /\ {c1, c2} \subseteq Range(db[u].channels)

\* the clock a stream sampled before it began to scan
StartClock == IF reader.pc = "scan" THEN reader.startTime ELSE reader.result.ifModifiedSince

\* C13: no object a discover has emitted has a lastModified above the clock the
\* call sampled before its scans, whatever posts and deletes run next to it.  (An
\* object that is still live has the lastModified it was emitted with.)
C13_NothingNewerThanStartClock ==
  (reader.kind = "discover" /\ reader.via = "discover")
  => \A i \in DOMAIN reader.events :
       LET u == reader.events[i].object.url
       IN  ~db[u].tombstone => db[u].lastModified <= StartClock

\* C14: the change feed loses no write.  A post or delete of an object of a
\* queried channel, visible to the viewer, that commits while the viewer holds a
\* continuation was not reported by the call that ended; the next continue scans
\* from the continuation's watermark, so the write is reported only if the
\* lastModified it commits with is at or above that watermark.
C14_NoWriteBelowWatermark ==
  [][\A p \in Procs :
       (/\ reader.kind = "continuation"
        /\ ops[p].pc = "put"
        /\ ops'[p].pc = "done" /\ ops'[p].result.status = "ok"
        /\ ops[p].url \in InChannels(db', reader.channels)
        /\ Permitted(db', ops[p].url, reader.session))
       => db'[ops[p].url].lastModified >= reader.ifModifiedSince]_vars

\* C15: a continue emits no event when the store's sequence number at its end
\* is the watermark it continues from, that is, when no write was committed
\* since the call before it sampled its clock.
C15_ContinueWithoutWritesIsEmpty ==
  [][(/\ reader.kind = "discover" /\ reader.pc = "scan" /\ reader.cont
      /\ reader' # reader
      /\ seq = reader.ifModifiedSince)
     => reader'.events = <<>>]_vars

\* a continue has scanned a channel that holds a live record its viewer may see,
\* no write was committed since the call before it began, and it has emitted nothing
C15_Witness ==
  /\ reader.kind = "discover" /\ reader.pc = "scan" /\ reader.cont
  /\ reader.index = 2
  /\ seq = reader.ifModifiedSince
  /\ reader.events = <<>>
  /\ \E u \in InChannels(db, <<reader.channels[1]>>) :
       ~db[u].tombstone /\ Permitted(db, u, reader.session)

\* the places of the events of a stream that carry url u
EventsOf(events, u) == {i \in DOMAIN events : events[i].object.url = u}

C17_ForeignContinueForbidden ==
  (reader.pc = "held" /\ reader.session.present)
  => \A session \in Viewers \ {reader.session} :
       \A stream \in {continueStream(reader, session),
                      continueDiscoverStream(reader, session)} :
         /\ stream.pc = "done"
         /\ stream.result.status = "Forbidden"
         /\ stream.events = <<>>

\* the continue function of a stream of a session with an actor, called by
\* another session, has failed with Forbidden
C17_Witness ==
  /\ reader.kind = "discover" /\ reader.pc = "done"
  /\ reader.via = "continue"
  /\ reader.session.present
  /\ reader.result.status = "Forbidden"
  /\ reader.events = <<>>

\* C18: continueDiscover with the cursor of a stream, called by the session of
\* that stream, starts the stream that the continue function of the stream's
\* continuation starts for that session: it does not fail with Forbidden, and
\* scans from the same watermark for the same viewer.
C18_CursorContinuesLikeContinue ==
  [][(/\ reader.pc = "held"
      /\ reader'.kind = "discover" /\ reader'.via = "continueDiscover"
      /\ reader'.session = reader.session)
     => /\ reader'.pc = "scan"
        /\ reader' = [continueStream(reader, reader.session)
                        EXCEPT !.via = "continueDiscover"]]_vars

\* C19: the scan of a continuation starts no earlier than continueBuffer after the
\* lastDiscovered of the call it continues; if that time had gone by when the
\* continuation was called, the scan starts with the call, without a timer.
C19_ScanWaitsForBuffer ==
  (pace.pc = "scan" /\ pace.cont)
  => /\ pace.scanStart >= pace.lastDiscovered + continueBuffer(pace.options)
     /\ pace.called - pace.lastDiscovered >= continueBuffer(pace.options)
        => ~pace.slept /\ pace.scanStart = pace.called

\* a continuation called before the default buffer had gone by has slept and
\* begun its scan exactly when the buffer ended
C19_Witness ==
  /\ pace.pc = "scan" /\ pace.cont
  /\ ~pace.options.present
  /\ pace.slept
  /\ pace.called > pace.lastDiscovered
  /\ pace.scanStart = pace.lastDiscovered + DefaultContinueBuffer

\* C20: a discover with the schema that bounds lastModified emits only objects
\* whose stored lastModified is within the bounds.  (An object that is still live
\* has the lastModified it was emitted with.)
C20_OnlyWithinBounds ==
  (reader.kind = "discover" /\ reader.schema = BoundedSchema)
  => \A i \in DOMAIN reader.events :
       LET u == reader.events[i].object.url
       IN  ~db[u].tombstone
           => /\ db[u].lastModified >= SchemaBounds.minimum
              /\ db[u].lastModified <= SchemaBounds.maximum

\* C21: decoding the url encoded from an actor and an id that hold no raw ":" gives back
\* exactly that actor and that id, whatever other characters they hold
C21_DecodeInvertsEncode ==
  (/\ codec.pc = "decoded"
   /\ codec.url = encodeObjectUrl(codec.actor, codec.id)
   /\ ":" \notin Range(codec.actor) \cup Range(codec.id))
  => /\ codec.decoded.ok
     /\ codec.decoded.actor = codec.actor
     /\ codec.decoded.id = codec.id

Malformed(url) ==
  \/ url = <<>>
  \/ Head(url) # OBJECT_URL_PREFIX
  \/ Cardinality({i \in DOMAIN Tail(url) : Tail(url)[i] = ":"}) # 1

\* C22: decoding a url that lacks the scheme prefix, or whose remainder does not hold
\* exactly one separator, fails with InvalidUrl and returns no actor and id
C22_MalformedUrlIsInvalidUrl ==
  (codec.pc = "decoded" /\ Malformed(codec.url))
  => ~codec.decoded.ok /\ codec.decoded.error = "InvalidUrl"

\* C23: over every step of every interleaving of writes, the lastModified stored for a
\* url does not decrease, and the tombstone a delete writes has a lastModified strictly
\* larger than the one the record was posted with
C23_LastModifiedNeverDecreases ==
  [][\A u \in DOMAIN db :
       /\ u \in DOMAIN db'
       /\ db'[u].lastModified >= db[u].lastModified
       /\ (~db[u].tombstone /\ db'[u].tombstone)
            => db'[u].lastModified > db[u].lastModified]_vars

\* a delete has replaced a posted record, while another write is in flight
C23_Witness ==
  \E u \in deleted :
    /\ db[u].tombstone
    /\ db[u].lastModified > 1
    /\ \E p \in Procs : ops[p].kind = "delete" /\ ops[p].pc = "done" /\ ops[p].url = u
                          /\ ops[p].result.status = "ok"

PutsDone == \A p \in Procs : calls[p].pc \in {"idle", "done"}

VersionsAt(uri) == allDocsAtLocation(docs, uri)

\* d is the version that wins among ds: latest timestamp written, then largest _id
Wins(d, ds) ==
  \A e \in ds \ {d} :
    \/ e.doc.written < d.doc.written
    \/ e.doc.written = d.doc.written /\ stringGreater(d.id, e.id)

\* C24: once the concurrent puts to a uri have all completed, exactly one of the versions
\* written is live, the one with the highest lastModified and among those the largest
\* _id; all others are tombstones, and no put has ended with an error
C24_LatestWriteWins ==
  PutsDone =>
    /\ \A uri \in DatabaseUris :
         VersionsAt(uri) # {} =>
           \E d \in VersionsAt(uri) :
             /\ Wins(d, VersionsAt(uri))
             /\ \A e \in VersionsAt(uri) : ~e.doc.tombstone <=> e = d
    /\ \A p \in Procs : calls[p].pc = "done" => calls[p].result = "ok"

\* two puts to one uri have overlapped and completed, with the same timestamp
C24_Witness ==
  /\ \A p \in Procs : calls[p].pc = "done"
  /\ calls[1].uri = calls[2].uri
  /\ calls[1].lastModified = calls[2].lastModified
  /\ \E d \in VersionsAt(calls[1].uri) : d.doc.tombstone

\* C25: in every reachable state, the states in the middle of concurrent writes
\* included, a url has at most one live (non-tombstone) record
C25_AtMostOneLivePerUrl ==
  \A uri \in DatabaseUris :
    Cardinality({d \in VersionsAt(uri) : ~d.doc.tombstone}) <= 1

\* the put of the delete in slot p is the next thing it does, and it will conflict
PutConflicts(p) ==
  /\ ops[p].kind = "delete" /\ ops[p].pc = "put"
  /\ ~putExisting(db, ops[p].url, ops[p].doc).ok

\* C26 as stated: a delete whose put hits a conflict is retried, so the conflicting
\* put is not the step with which the call ends
C26_ConflictingDeleteIsRetried ==
  [][\A p \in Procs : (PutConflicts(p) /\ ops'[p] # ops[p]) => ops'[p].pc # "done"]_vars

\* C26 amended: a delete whose put hits a conflict ends at once with NotFound and
\* writes nothing; the put conflicts only when the record is a tombstone already, and a
\* put that commits writes the one tombstone of the url, its second revision
C26_ConflictOnlyOnceTombstoned ==
  [][\A p \in Procs :
       (ops[p].kind = "delete" /\ ops[p].pc = "put" /\ ops'[p] # ops[p]) =>
          /\ ops'[p].pc = "done"
          /\ IF PutConflicts(p)
             THEN /\ db[ops[p].url].tombstone
                  /\ ops'[p].result = Failure("NotFound")
                  /\ db' = db
             ELSE /\ ~db[ops[p].url].tombstone
                  /\ db'[ops[p].url].tombstone
                  /\ db'[ops[p].url].rev = 2
                  /\ ops'[p].result.status = "ok"]_vars

\* of two overlapping deletes of one url by its owner one has committed and the put
\* of the other is about to conflict
C26_Witness ==
  \E p, q \in Procs :
    /\ ops[p].kind = "delete" /\ ops[p].pc = "done" /\ ops[p].result.status = "ok"
    /\ PutConflicts(q)
    /\ ops[q].url = ops[p].url

\* C27: an object posted without channels is emitted by no discover and no continue,
\* whatever channels are queried and whoever the viewer is, its owner included
C27_OrphansNeverDiscovered ==
  reader.kind = "discover"
  => \A i \in DOMAIN reader.events : db[reader.events[i].object.url].channels # <<>>

\* a continue called by the owner of a live object without channels has emitted another
\* object
C27_Witness ==
  /\ StreamDone("continue")
  /\ reader.events # <<>>
  /\ \E u \in DOMAIN db :
       /\ db[u].channels = <<>> /\ ~db[u].tombstone
       /\ reader.session = SessionOf(OwnerOf(u))

SetMax(S) == CHOOSE m \in S : \A x \in S : x <= m

\* the lastModified of the records a stream has emitted, as far as the record is
\* still in the state it was emitted in
EmittedLastModified(events) ==
  {db[events[i].object.url].lastModified :
     i \in {j \in DOMAIN events : db[events[j].object.url].tombstone = events[j].tombstone}}

\* C28: the watermark a discover or continue returns is the larger of the clock it
\* sampled at its start and the greatest lastModified of the records it observed
C28_WatermarkIsGreatestObserved ==
  [][(reader.kind = "discover" /\ reader.pc = "scan" /\ reader'.pc = "done")
     => reader'.result.ifModifiedSince =
          SetMax({reader.startTime} \cup EmittedLastModified(reader'.events))]_vars

\* the least lastModified a schema admits
SchemaMinimum(schema) == IF schema = BoundedSchema THEN SchemaBounds.minimum ELSE 0

\* C29: a continue scans each channel from the larger of the schema's lastModified
\* minimum and the watermark it continues from: it emits no record whose lastModified
\* is below that watermark and none whose lastModified is below the schema's minimum
C29_ContinueScansFromBothBounds ==
  [][(reader.kind = "discover" /\ reader.pc = "scan" /\ reader.cont /\ reader'.pc = "done")
     => \A lastModified \in EmittedLastModified(reader'.events) :
          /\ lastModified >= reader.ifModifiedSince
          /\ lastModified >= SchemaMinimum(reader.schema)]_vars

Digits == <<"0", "1", "2", "3", "4", "5", "6", "7", "8", "9">>

\* the number a string of decimal digits denotes
RECURSIVE DecimalValue(_)
DecimalValue(s) ==
  IF s = <<>> THEN 0
  ELSE 10 * DecimalValue(SubSeq(s, 1, Len(s) - 1))
       + (CHOOSE d \in 0..9 : Digits[d + 1] = s[Len(s)])

\* s is the integer n written with 15 decimal digits
FifteenDigits(s, n) ==
  /\ Len(s) = 15
  /\ \A i \in DOMAIN s : \E d \in DOMAIN Digits : Digits[d] = s[i]
  /\ DecimalValue(s) = n

Integers0 == 0..MaxHalves

\* the smallest integer strictly greater than, or not less than, x halves
LeastAbove(x, strict) ==
  CHOOSE n \in Integers0 :
    /\ IF strict THEN 2 * n > x ELSE 2 * n >= x
    /\ \A k \in Integers0 : (IF strict THEN 2 * k > x ELSE 2 * k >= x) => n <= k

\* the largest integer strictly less than, or not greater than, x halves
GreatestBelow(x, strict) ==
  CHOOSE n \in Integers0 :
    /\ IF strict THEN 2 * n < x ELSE 2 * n <= x
    /\ \A k \in Integers0 : (IF strict THEN 2 * k < x ELSE 2 * k <= x) => n >= k

\* C30: the range taken from a schema's bounds on lastModified: an exclusiveMinimum
\* gives the smallest integer strictly greater, a minimum its ceiling, an
\* exclusiveMaximum the largest integer strictly less, a maximum its floor, each
\* written with 15 zero-padded decimal digits; without a lower bound the start
\* suffix is the empty string, without an upper bound the end suffix is \uffff
C30_SuffixesFromBounds ==
  suffixes.pc = "done" =>
    LET schema == suffixes.schema
        bounded == schema.kind = "object" /\ schema.bounded
        start == suffixes.result.startKeySuffix
        end == suffixes.result.endKeySuffix
    IN  /\ (bounded /\ schema.exclusiveMinimum.present)
             => FifteenDigits(start, LeastAbove(schema.exclusiveMinimum.value, TRUE))
        /\ (bounded /\ ~schema.exclusiveMinimum.present /\ schema.minimum.present)
             => FifteenDigits(start, LeastAbove(schema.minimum.value, FALSE))
        /\ (bounded /\ schema.exclusiveMaximum.present)
             => FifteenDigits(end, GreatestBelow(schema.exclusiveMaximum.value, TRUE))
        /\ (bounded /\ ~schema.exclusiveMaximum.present /\ schema.maximum.present)
             => FifteenDigits(end, GreatestBelow(schema.maximum.value, FALSE))
        /\ (~bounded \/ (~schema.exclusiveMinimum.present /\ ~schema.minimum.present))
             => start = <<>>
        /\ (~bounded \/ (~schema.exclusiveMaximum.present /\ ~schema.maximum.present))
             => end = <<"uffff">>

\* the suffixes of {exclusiveMinimum: 1, maximum: 1.5}: 2 and 1
C30_Witness ==
  /\ suffixes.pc = "done"
  /\ suffixes.schema.kind = "object" /\ suffixes.schema.bounded
  /\ suffixes.schema.exclusiveMinimum = NumberOf(2)
  /\ suffixes.schema.maximum = NumberOf(3)
  /\ ~suffixes.schema.minimum.present /\ ~suffixes.schema.exclusiveMaximum.present
  /\ suffixes.result.startKeySuffix = [i \in 1..15 |-> IF i = 15 THEN "2" ELSE "0"]
  /\ suffixes.result.endKeySuffix = [i \in 1..15 |-> IF i = 15 THEN "1" ELSE "0"]

\* the urls of the records of a channel whose lastModified is from lo to hi
UrlsBetween(store, channel, lo, hi) ==
  {u \in DOMAIN store : /\ channel \in Range(store[u].channels)
                        /\ lo <= store[u].lastModified
                        /\ store[u].lastModified <= hi}

\* C31: two padded timestamps compare as strings the way the numbers compare, so the
\* query of the view between channel/pad(lo) and channel/pad(hi) returns exactly the
\* rows of that channel with lo <= lastModified <= hi, and the query from
\* channel/pad(lo) onwards exactly those with lo <= lastModified
C31_PaddedOrderIsNumericOrder ==
  keys.pc = "done" =>
    /\ keys.leq <=> keys.lo <= keys.hi
    /\ {keys.between[i].id : i \in DOMAIN keys.between} =
         UrlsBetween(db, keys.channel, keys.lo, keys.hi)
    /\ Len(keys.between) = Cardinality(UrlsBetween(db, keys.channel, keys.lo, keys.hi))
    /\ {keys.since[i].id : i \in DOMAIN keys.since} =
         {u \in DOMAIN db : /\ keys.channel \in Range(db[u].channels)
                            /\ keys.lo <= db[u].lastModified}

\* the query of c1 from 9 to 100, across two changes in the number of digits
C31_Witness ==
  /\ keys.pc = "done"
  /\ keys.channel = c1 /\ keys.lo = 9 /\ keys.hi = 100
  /\ keys.leq
  /\ Len(keys.between) = 5

\* the put of the delete in slot p commits in this step
DeleteCommits(p) ==
  /\ ops[p].kind = "delete" /\ ops[p].pc = "put"
  /\ ops'[p].pc = "done" /\ ops'[p].result.status = "ok"

\* C32: a delete that succeeds changes the tombstone flag and the lastModified of the
\* record and nothing else: url, the actor the url gives, channels, value and allowed
\* stay, and the view has a row for the tombstone under each channel the object had
C32_DeleteKeepsTheRest ==
  [][\A p \in Procs :
       DeleteCommits(p) =>
         LET u == ops[p].url
         IN  /\ DOMAIN db' = DOMAIN db
             /\ ~db[u].tombstone /\ db'[u].tombstone
             /\ db'[u].channels = db[u].channels
             /\ db'[u].value = db[u].value
             /\ db'[u].allowed = db[u].allowed
             /\ \A i \in DOMAIN db[u].channels :
                  \E r \in viewRows(db') :
                    r.id = u /\ r.key = viewKey(db[u].channels[i], db'[u].lastModified)]_vars

\* a delete has succeeded on an object of two channels that had an allowed list
C32_Witness ==
  \E p \in Procs :
    /\ ops[p].kind = "delete" /\ ops[p].pc = "done" /\ ops[p].result.status = "ok"
    /\ db[ops[p].url].tombstone
    /\ Len(db[ops[p].url].channels) = 2
    /\ db[ops[p].url].allowed.present

\* the put of the post or delete in slot p commits in this step
WriteCommits(p) ==
  /\ ops[p].kind \in {"post", "delete"} /\ ops[p].pc = "put"
  /\ ops'[p].pc = "done" /\ ops'[p].result.status = "ok"

\* C33: two writes that succeed with sessions of one actor get different lastModified
\* values, in the order in which they commit, also when the second call is made before
\* the first has returned
C33_OneActorsWritesAreOrdered ==
  [][\A p \in Procs :
       WriteCommits(p) =>
         \A u \in DOMAIN db \ {ops[p].url} :
           wrote[u] = {ops[p].session.actor}
             => db[u].lastModified < db'[ops[p].url].lastModified]_vars

\* C34: within one discover or continue the events drawn from one channel come in
\* non-decreasing order of lastModified, and the events of a channel listed earlier
\* come before those of a channel listed later: each scan of a channel appends its
\* events, in that order, to the events of the channels before it
C34_ChannelOrderThenLastModified ==
  [][(/\ reader.kind = "discover" /\ reader.pc = "scan"
      /\ reader'.kind = "discover" /\ reader' # reader)
     => LET old == reader.events
            new == reader'.events
            drawn == (Len(old) + 1)..Len(new)
        IN  /\ Len(old) <= Len(new)
            /\ SubSeq(new, 1, Len(old)) = old
            /\ \A i \in drawn :
                 reader.channels[reader.index] \in Range(db[new[i].object.url].channels)
            /\ \A i, j \in drawn :
                 i < j => db[new[i].object.url].lastModified
                            <= db[new[j].object.url].lastModified]_vars

\* a discover over two channels has emitted the newer object first, from the channel
\* listed first, and the older one after it
C34_Witness ==
  /\ StreamDone("discover")
  /\ Len(reader.events) = 2
  /\ ~db[reader.events[1].object.url].tombstone
  /\ ~db[reader.events[2].object.url].tombstone
  /\ db[reader.events[1].object.url].lastModified
       > db[reader.events[2].object.url].lastModified

\* C35: the put of a post or delete on a url leaves the record at every other url as it
\* is and adds no other url; and it fails only when the record at its own url is not
\* what the call expects (taken, for a post; no longer the revision read, for a
\* delete), never because of a write to another url
C35_OtherUrlsUntouched ==
  [][\A p \in Procs :
       (ops[p].pc = "put" /\ ops'[p] # ops[p]) =>
         LET u == ops[p].url
         IN  /\ DOMAIN db' \subseteq DOMAIN db \cup {u}
             /\ \A w \in DOMAIN db \ {u} : w \in DOMAIN db' /\ db'[w] = db[w]
             /\ ops'[p].result.status # "ok" =>
                  /\ u \in DOMAIN db
                  /\ ops[p].kind = "delete" => db[u].rev # ops[p].doc.rev]_vars

\* the call in the second slot, begun while the call in the first was in flight, has
\* succeeded after the first committed its write to another url
C35_Witness ==
  /\ ops[2].pc = "done" /\ ops[2].result.status = "ok"
  /\ ops[1] = Idle
  /\ \E w \in DOMAIN db : w # ops[2].url /\ db[w].lastModified <= db[ops[2].url].lastModified

\* a step of get, discover, continue or continueDiscover: the call, the scan of a
\* channel, and the return of the result to the caller
ReadStep == reader' # reader

\* C36 as stated: get, discover, continue and continueDiscover never write to the
\* store; across any such call, whether it succeeds, fails or is abandoned
\* mid-stream, every record and the update sequence of the backend are unchanged.
C36_ReadsNeverWrite ==
  [][ReadStep => db' = db /\ seq' = seq]_vars

\* C36: get, discover, continue and continueDiscover leave every record unchanged,
\* and leave the update sequence unchanged too, except that the first call to use a
\* database that was never opened creates it and puts the design document, which
\* takes the update sequence from 0 to 1.
C36_ReadsWriteNoRecord ==
  [][ReadStep => db' = db /\ seq' = (IF seq = 0 THEN 1 ELSE seq)]_vars

\* a continuation has run to its end over a store that holds a record and a
\* tombstone, with the update sequence where the writes left it
C36_Witness ==
  /\ reader.kind = "discover" /\ reader.pc = "done" /\ reader.cont
  /\ reader.result.status = "ok"
  /\ seq = MaxSeq
  /\ \E u \in DOMAIN db : db[u].tombstone

\* the events the scan step of a stream adds
NewEvents == {reader'.events[i] : i \in (Len(reader.events) + 1)..Len(reader'.events)}

\* C37: a continuation emits a tombstone event for a url only to a viewer who was
\* allowed to see the deleted object (allowed absent, or the viewer is its owner or
\* listed) and only when the object had one of the queried channels; the event
\* carries the url and none of the value, channels or allowed of the object.
C37_TombstoneOnlyToTheAllowed ==
  [][(reader.kind = "discover" /\ reader.pc = "scan" /\ reader.cont) =>
       \A e \in NewEvents : e.tombstone =>
         /\ e.object.url \in DOMAIN db
         /\ LET doc == db[e.object.url]
                viewer == reader.session
            IN  /\ doc.tombstone
                /\ \/ ~doc.allowed.present
                   \/ /\ viewer.present
                      /\ \/ decodeObjectUrl(e.object.url).actor = viewer.actor
                         \/ viewer.actor \in Range(doc.allowed.list)
                /\ Range(doc.channels) \cap Range(reader.channels) # {}
         /\ e.object = [NoObject EXCEPT !.url = e.object.url]]_vars

\* a continuation has passed the tombstone of a restricted object to a listed
\* viewer who is not its owner
C37_Witness ==
  /\ reader.kind = "discover" /\ reader.pc = "done" /\ reader.cont
  /\ \E i \in DOMAIN reader.events :
       LET e == reader.events[i]
       IN  /\ e.tombstone
           /\ db[e.object.url].allowed.present
           /\ db[e.object.url].value # ""
           /\ reader.session.present
           /\ reader.session.actor # decodeObjectUrl(e.object.url).actor

\* a stream that has not failed, or the continuation a stream ended with
InChain(r) ==
  \/ r.kind = "continuation"
  \/ r.kind = "discover" /\ r.pc = "scan"
  \/ r.kind = "discover" /\ r.pc = "done" /\ r.result.status = "ok"

\* the cursor of r without its watermark
CursorArgs(r) == discoverCursor(r.channels, r.schema, r.session, 0)

\* the watermark of the cursor r holds, continues from, or ends with
Watermark(r) ==
  IF r.kind = "discover" /\ r.pc = "done" THEN r.result.ifModifiedSince
  ELSE r.ifModifiedSince

\* C38: along any chain discover, continue, continue, ... every cursor carries the
\* channels, the schema and the actor of the original discover call, and the
\* ifModifiedSince watermarks of successive cursors never decrease.
C38_CursorsKeepTheCall ==
  [][(/\ InChain(reader) /\ InChain(reader')
      /\ ~(reader'.kind = "discover" /\ reader'.pc = "scan" /\ ~reader'.cont))
       => /\ CursorArgs(reader') = CursorArgs(reader)
          /\ Watermark(reader') >= Watermark(reader)]_vars

\* a continuation of a logged-in actor scans a store that was written to since the
\* watermark of the cursor it continues
C38_Witness ==
  /\ reader.kind = "discover" /\ reader.pc = "scan" /\ reader.cont
  /\ reader.session.present
  /\ reader.ifModifiedSince >= 1
  /\ reader.startTime > reader.ifModifiedSince

\* a call of logout that was made: the manager's state records it
LogoutStep == managerCall'.kind = "logout" /\ managerVars' # managerVars

NoDuplicate(list) == \A i, j \in DOMAIN list : list[i] = list[j] => i = j

\* C39 on the version that keeps actors: logout(session) dispatches exactly one
\* logout event carrying session.actor, with an error iff that actor was not in the
\* list of logged-in actors; after the call the actor is not in the list and the
\* other actors are unchanged; the list never holds a duplicate.
C39_LogoutOfActors ==
  /\ [](getLoggedInActors.ok /\ NoDuplicate(getLoggedInActors.value))
  /\ [][LogoutStep =>
          LET actor == managerCall'.actor
              before == getLoggedInActors.value
          IN  /\ ~managerCall'.thrown
              /\ dispatched' = Append(dispatched, logoutEvent(actor, actor \notin Range(before)))
              /\ getLoggedInActors'.ok
              /\ getLoggedInActors'.value = SelectSeq(before, LAMBDA a : a # actor)]_vars

\* an actor that holds the separator of the stored item has logged out in the
\* browser and left another actor logged in
C39_ActorsWitness ==
  /\ window
  /\ managerCall.kind = "logout" /\ managerCall.actor = <<"a", ",", "a">>
  /\ dispatched # <<>> /\ dispatched[Len(dispatched)] = logoutEvent(<<"a", ",", "a">>, FALSE)
  /\ getLoggedInActors.value = << <<"%">> >>

\* C39 on session-manager.ts, where the list is kept as handles: logout(session)
\* dispatches exactly one logout event carrying session.actor, with an error iff the
\* handle of that actor was not in the list; after the call it is not in the list and
\* the others are unchanged; the list never holds a duplicate.
C39_LogoutOfHandles ==
  /\ [](getLoggedInHandles.ok /\ NoDuplicate(getLoggedInHandles.value))
  /\ [][LogoutStep =>
          LET actor == managerCall'.actor
              handle == actorToHandle(actor).value
              before == getLoggedInHandles.value
          IN  /\ ~managerCall'.thrown
              /\ dispatched' = Append(dispatched, logoutEvent(actor, handle \notin Range(before)))
              /\ getLoggedInHandles'.ok
              /\ getLoggedInHandles'.value = SelectSeq(before, LAMBDA h : h # handle)]_vars

\* C40: in every reachable state every committed record, live or tombstone, has a
\* lastModified strictly less than the current update sequence of the backend.
C40_StampsAreBehindTheSequence ==
  \A u \in DOMAIN db : db[u].lastModified < seq

\* a tombstone is stored whose stamp is the sequence number just before the
\* current one: the delete read the sequence its own put advanced
C40_Witness ==
  \E u \in DOMAIN db : db[u].tombstone /\ db[u].lastModified = seq - 1

====
